---- MODULE Spec2Model ----
(***************************************************************************)
(* Model of the atmos_agro_atlas raster pipeline:                          *)
(*   - the workflow pipeline (core/pipeline) and its four steps,           *)
(*   - the spectral index calculator (core/engine/index_calculator.py),    *)
(*   - the multi-index map renderer and the panel script it embeds         *)
(*     (core/engine/renderers/multi_index_map.py).                         *)
(*                                                                         *)
(* Conventions.  An Optional value is a set with at most one element       *)
(* (None is {}).  A file name is a sequence of tokens, the first being the *)
(* base and the others its dot-suffixes (<<"S2A", ".SAFE", ".zip">>); a    *)
(* path is a sequence of names.  A dict is a function on its key set.      *)
(***************************************************************************)
EXTENDS Integers, Sequences, FiniteSets, TLC

VARIABLES
    \* ---- workflow pipeline ----
    entry,      \* who drives the run: "WorkflowPipeline" or a bare "Pipeline"
    pc,         \* "new", "loop", "returned", "raised"
    steps,      \* Pipeline.steps
    stepIdx,    \* position of the for-loop of Pipeline.run
    client,     \* ResolveProductStep.client (Optional)
    ctx,        \* the WorkflowContext of the run
    error,      \* the error that reached the caller ("none" when none)
    fs,         \* the paths that exist on disk (inputs and what the run created)
    calls,      \* collaborator operations invoked so far, in order
    trace,      \* one record per step execution, in order
    \* ---- index calculator ----
    ic,         \* analyse_scene: its call and its outcome
    px,         \* one function applied once: its call, then also its outcome
    \* ---- multi-index map and its panel ----
    doc,        \* the document written by MultiIndexMapRenderer.render
    page,       \* the browser state of that document
    \* ---- band extraction ----
    ex          \* a product, a destination directory and the extract calls made

vars == <<entry, pc, steps, stepIdx, client, ctx, error, fs, calls, trace,
          ic, px, doc, page, ex>>

pipeVars == <<entry, pc, steps, stepIdx, client, ctx, error, fs, calls, trace>>
indexVars == <<ic, px>>
mapVars == <<doc, page>>
extractVars == <<ex>>

\* the parts of the state a specification does not use stay as they are here
IdleIndex == ic = <<>> /\ px = <<>>
IdleMap == doc = <<>> /\ page = <<>>
IdleExtract == ex = <<>>

(***************************************************************************)
(* Generic helpers                                                         *)
(***************************************************************************)
None == {}
Some(x) == {x}
The(o) == CHOOSE x \in o : TRUE

Last(s) == s[Len(s)]
Front(s) == SubSeq(s, 1, Len(s) - 1)

RECURSIVE SeqOfSet(_, _)
\* the elements of `order` that are in S, in the order of `order`
SeqOfSet(order, S) ==
    IF order = <<>> THEN <<>>
    ELSE IF Head(order) \in S
         THEN <<Head(order)>> \o SeqOfSet(Tail(order), S)
         ELSE SeqOfSet(Tail(order), S)

Range(s) == {s[i] : i \in DOMAIN s}

(***************************************************************************)
(* Paths and names                                                         *)
(***************************************************************************)
Root == <<"/">>
Cwd == <<Root, <<"work">>>>

\* Path.resolve(): a relative path is made absolute against the working directory
Resolve(p) == IF p[1] = Root THEN p ELSE Cwd \o p

\* Path.name and Path.stem (the name without its last suffix)
PathName(p) == Last(p)
PathStem(p) == IF Len(PathName(p)) > 1 THEN Front(PathName(p)) ELSE PathName(p)

\* CopernicusClient.infer_product_name
infer_product_name(p) ==
    LET stem0 == PathStem(p)
        stem == IF stem0 # <<>> /\ Last(stem0) = ".SAFE" THEN Front(stem0) ELSE stem0
    IN IF stem # <<>> THEN stem ELSE PathName(p)

\* AppConfig directories
DATA_RAW_DIR == <<Root, <<"data">>, <<"raw">>>>
DATA_PROCESSED_DIR == <<Root, <<"data">>, <<"processed">>>>
MAPAS_DIR == <<Root, <<"mapas">>>>

Tif(n) == <<n, ".tif">>

(***************************************************************************)
(* Errors.  An error is a record: its kind and the names its message lists *)
(***************************************************************************)
Err(kind, names) == [kind |-> kind, names |-> names]
NoError == Err("none", {})

(***************************************************************************)
(* Floating point samples (numpy float arrays, one pixel at a time).       *)
(* A sample is NaN, +inf, -inf or a finite rational n/d in lowest terms.   *)
(* Signed zeros are not distinguished.                                     *)
(***************************************************************************)
RECURSIVE GCD(_, _)
GCD(a, b) == IF b = 0 THEN a ELSE GCD(b, a % b)

Abs(x) == IF x < 0 THEN -x ELSE x

NaN == [k |-> "nan", n |-> 0, d |-> 1]
PInf == [k |-> "pinf", n |-> 0, d |-> 1]
NInf == [k |-> "ninf", n |-> 0, d |-> 1]

Fin(n, d) ==
    LET g == GCD(Abs(n), Abs(d))
        s == IF d < 0 THEN -1 ELSE 1
    IN [k |-> "fin", n |-> (s * n) \div g, d |-> (s * d) \div g]

Zero == Fin(0, 1)
One == Fin(1, 1)

IsNaN(a) == a.k = "nan"
IsFinite(a) == a.k = "fin"
IsInf(a) == a.k \in {"pinf", "ninf"}
\* numpy `a == 0`: false for NaN and the infinities
IsZero(a) == a.k = "fin" /\ a.n = 0
\* -1, 0, 1 for a non-NaN sample
Sign(a) ==
    IF a.k = "pinf" THEN 1
    ELSE IF a.k = "ninf" THEN -1
    ELSE IF a.n > 0 THEN 1 ELSE IF a.n < 0 THEN -1 ELSE 0

InfOfSign(s) == IF s > 0 THEN PInf ELSE NInf

FNeg(a) ==
    IF a.k = "pinf" THEN NInf
    ELSE IF a.k = "ninf" THEN PInf
    ELSE IF a.k = "nan" THEN NaN
    ELSE Fin(-a.n, a.d)

FAdd(a, b) ==
    IF IsNaN(a) \/ IsNaN(b) THEN NaN
    ELSE IF IsInf(a) /\ IsInf(b) THEN (IF a = b THEN a ELSE NaN)
    ELSE IF IsInf(a) THEN a
    ELSE IF IsInf(b) THEN b
    ELSE Fin(a.n * b.d + b.n * a.d, a.d * b.d)

FSub(a, b) == FAdd(a, FNeg(b))

FMul(a, b) ==
    IF IsNaN(a) \/ IsNaN(b) THEN NaN
    ELSE IF IsInf(a) \/ IsInf(b)
         THEN (IF Sign(a) * Sign(b) = 0 THEN NaN ELSE InfOfSign(Sign(a) * Sign(b)))
    ELSE Fin(a.n * b.n, a.d * b.d)

\* numpy true division: x/0 is +-inf, 0/0 and inf/inf are NaN, nothing is raised
FDiv(a, b) ==
    IF IsNaN(a) \/ IsNaN(b) THEN NaN
    ELSE IF IsInf(a) /\ IsInf(b) THEN NaN
    ELSE IF IsInf(a) THEN InfOfSign(Sign(a) * (IF Sign(b) < 0 THEN -1 ELSE 1))
    ELSE IF IsInf(b) THEN Zero
    ELSE IF b.n = 0 THEN (IF a.n = 0 THEN NaN ELSE InfOfSign(Sign(a)))
    ELSE Fin(a.n * b.d, a.d * b.n)

(***************************************************************************)
(* core/engine/index_calculator.py: the formulas                           *)
(***************************************************************************)
ComputeIndexNoZeroMask(numerator, denominator) ==
    LET index == FDiv(numerator, denominator)
    IN IF IsNaN(index) THEN Zero ELSE index

\* _compute_index that gives 0 only where the denominator is 0
ComputeIndexZeroOnlyAtZero(numerator, denominator) ==
    IF IsZero(denominator) THEN Zero ELSE FDiv(numerator, denominator)

_compute_index(numerator, denominator) ==
    LET mask == IsZero(denominator)
        den == IF mask THEN NaN ELSE denominator
        index == FDiv(numerator, den)
    IN IF IsNaN(index) THEN Zero ELSE index

\* compute_ndvi with the operands of the difference exchanged
NdviRedMinusNir(nir, red) == _compute_index(FSub(red, nir), FAdd(nir, red))

compute_ndvi(nir, red) == _compute_index(FSub(nir, red), FAdd(nir, red))
compute_ndwi(nir, swir) == _compute_index(FSub(nir, swir), FAdd(nir, swir))
compute_msi(nir, swir) == _compute_index(swir, nir)
compute_evi(nir, red, blue) ==
    LET denominator ==
            FAdd(FSub(FAdd(nir, FMul(Fin(6, 1), red)), FMul(Fin(15, 2), blue)), One)
    IN FMul(Fin(5, 2), _compute_index(FSub(nir, red), denominator))
compute_ndre(nir, rededge) == _compute_index(FSub(nir, rededge), FAdd(nir, rededge))
compute_ndmi(nir, swir) == _compute_index(FSub(nir, swir), FAdd(nir, swir))
compute_ndre_generic(nir, rededge) == _compute_index(FSub(nir, rededge), FAdd(nir, rededge))
compute_ci_rededge(nir, rededge4) == FSub(FDiv(nir, rededge4), One)
compute_sipi(nir, red, blue) == _compute_index(FSub(nir, blue), FSub(nir, red))

\* INDEX_SPECS: the names in registry (dict) order, and the bands of each
RegistryOrder ==
    <<"ndvi", "ndwi", "msi", "evi", "ndre", "ndmi",
      "ndre1", "ndre2", "ndre3", "ndre4", "ci_rededge", "sipi">>
IndexNames == Range(RegistryOrder)

SpecBands(name) ==
    CASE name = "ndvi" -> <<"nir", "red">>
      [] name = "ndwi" -> <<"nir", "swir1">>
      [] name = "msi" -> <<"nir", "swir1">>
      [] name = "evi" -> <<"nir", "red", "blue">>
      [] name = "ndre" -> <<"nir", "rededge4">>
      [] name = "ndmi" -> <<"nir", "swir1">>
      [] name = "ndre1" -> <<"nir", "rededge1">>
      [] name = "ndre2" -> <<"nir", "rededge2">>
      [] name = "ndre3" -> <<"nir", "rededge3">>
      [] name = "ndre4" -> <<"nir", "rededge4">>
      [] name = "ci_rededge" -> <<"nir", "rededge4">>
      [] name = "sipi" -> <<"nir", "red", "blue">>

\* spec.func(*arrays): `a` holds the samples of the bands of the spec, in order
SpecFunc(name, a) ==
    CASE name = "ndvi" -> compute_ndvi(a[1], a[2])
      [] name = "ndwi" -> compute_ndwi(a[1], a[2])
      [] name = "msi" -> compute_msi(a[1], a[2])
      [] name = "evi" -> compute_evi(a[1], a[2], a[3])
      [] name = "ndre" -> compute_ndre(a[1], a[2])
      [] name = "ndmi" -> compute_ndmi(a[1], a[2])
      [] name \in {"ndre1", "ndre2", "ndre3", "ndre4"} -> compute_ndre_generic(a[1], a[2])
      [] name = "ci_rededge" -> compute_ci_rededge(a[1], a[2])
      [] name = "sipi" -> compute_sipi(a[1], a[2], a[3])

(***************************************************************************)
(* core/engine/index_calculator.py: IndexCalculator.analyse_scene          *)
(***************************************************************************)
RECURSIVE Dedupe(_)
\* list(dict.fromkeys(indices)): first occurrences, in order
Dedupe(s) ==
    IF s = <<>> THEN <<>>
    ELSE LET front == Dedupe(Front(s))
         IN IF Last(s) \in Range(front) THEN front ELSE Append(front, Last(s))

RECURSIVE FlatMap(_, _)
\* the concatenation of Op(s[1]), Op(s[2]), ...
FlatMap(Op(_), s) == IF s = <<>> THEN <<>> ELSE Op(Head(s)) \o FlatMap(Op, Tail(s))

\* the band aliases in the order the model visits `required - {"nir"}`
BandOrder ==
    <<"nir", "red", "blue", "swir1", "rededge1", "rededge2", "rededge3", "rededge4">>

\* file operations, as logged in the `io` field of a result
OpOpen(path) == [op |-> "open", path |-> path]
OpMkdir(path) == [op |-> "mkdir", path |-> path]
OpWrite(path) == [op |-> "write", path |-> path]

\* load_raster(path, reference_path): opens the band, then the reference if given
LoadRasterOps(path, reference) ==
    <<OpOpen(path)>> \o (IF reference = None THEN <<>> ELSE <<OpOpen(The(reference))>>)

\* save_raster(array, template_path, destination)
SaveRasterOps(template, destination) ==
    <<OpMkdir(Front(destination)), OpOpen(template), OpWrite(destination)>>

\* the grid of a raster file: affine transform, CRS, height and width
Grid(transform, crs, height, width) ==
    [transform |-> transform, crs |-> crs, height |-> height, width |-> width]

\* load_raster(path, reference_path): the grid of the array returned and
\* whether reproject was called; own and ref are the grids of the two files
LoadedGrid(own, reference) ==
    IF reference # None
       /\ (own.transform # The(reference).transform
             \/ own.height # The(reference).height
             \/ own.width # The(reference).width)
    THEN [grid |-> The(reference), resampled |-> TRUE]
    ELSE [grid |-> own, resampled |-> FALSE]

Requested(indices) == IF indices # None THEN Dedupe(The(indices)) ELSE RegistryOrder

\* the union of the bands of the requested (registered) indices
RequiredBands(requested) ==
    UNION {Range(SpecBands(name)) : name \in Range(requested) \cap IndexNames}

AnalyseResult(err, outputs, io) == [error |-> err, outputs |-> outputs, io |-> io]

UnknownIndicesUnchecked(requested) == {}

\* sorted(set(requested) - self.specs.keys())
UnknownIndices(requested) == Range(requested) \ IndexNames

MissingBandsNirOnly(required, band_paths) == (required \cap {"nir"}) \ DOMAIN band_paths

\* required - band_paths.keys()
MissingBands(required, band_paths) == required \ DOMAIN band_paths

SceneOutputsNoSuffix(requested, output_dir) ==
    [name \in Range(requested) |-> Append(output_dir, <<name>>)]

\* outputs[name] = save_raster(..., output_dir / f"{name}.tif")
SceneOutputs(requested, output_dir) ==
    [name \in Range(requested) |-> Append(output_dir, Tif(name))]

\* band_paths: dict alias -> path; indices: Optional sequence of names;
\* failAt: the number of the file operation that fails (0: none does).
\* The result holds the error raised (or none), the dict returned and the log
\* of the file operations that were carried out.
analyse_scene(band_paths, output_dir, indices, failAt) ==
    LET requested == Requested(indices)
        unknown == UnknownIndices(requested)
        required == RequiredBands(requested)
        missing_bands == MissingBands(required, band_paths)
        LoadOther(band) == LoadRasterOps(band_paths[band], Some(band_paths["nir"]))
        SaveOne(name) == SaveRasterOps(band_paths["nir"], Append(output_dir, Tif(name)))
        plan == LoadRasterOps(band_paths["nir"], None)
                \o FlatMap(LoadOther, SeqOfSet(BandOrder, required \ {"nir"}))
                \o FlatMap(SaveOne, requested)
    IN IF requested = <<>> THEN AnalyseResult(Err("no_indices_requested", {}), <<>>, <<>>)
       ELSE IF unknown # {}
            THEN AnalyseResult(Err("unsupported_indices", unknown), <<>>, <<>>)
       \* self.specs[name] of an unregistered name is a KeyError
       ELSE IF ~(Range(requested) \subseteq IndexNames)
            THEN AnalyseResult(Err("KeyError", Range(requested) \ IndexNames), <<>>, <<>>)
       ELSE IF missing_bands # {}
            THEN AnalyseResult(Err("missing_bands", missing_bands), <<>>, <<>>)
       \* band_paths[band] of an absent alias is a KeyError
       ELSE IF ~(required \subseteq DOMAIN band_paths)
            THEN AnalyseResult(Err("KeyError", required \ DOMAIN band_paths), <<>>, <<>>)
       ELSE IF failAt \in 1..Len(plan)
            THEN AnalyseResult(Err("raster_io", {}), <<>>, SubSeq(plan, 1, failAt - 1))
       ELSE AnalyseResult(NoError, SceneOutputs(requested, output_dir), plan)

\* what load_raster hands over the array on, for every band where nir is not the
\* reference
BandArraysOwnGrid(grids, indices) ==
    [b \in RequiredBands(Requested(indices)) |-> LoadedGrid(grids[b], None)]

\* band_arrays of analyse_scene: nir loaded as it is, every other required band
\* loaded with the nir file as reference; grids: the grid of each band file
BandArrays(grids, indices) ==
    [b \in RequiredBands(Requested(indices)) |->
        IF b = "nir" THEN LoadedGrid(grids[b], None)
        ELSE LoadedGrid(grids[b], Some(grids["nir"]))]

\* save_raster(result, band_paths["nir"], ...): the output takes the metadata
\* of the nir file
OutputGrid(grids) == grids["nir"]

\* the files a log of operations leaves written or created
Written(io) == {io[i].path : i \in {j \in DOMAIN io : io[j].op \in {"write", "mkdir"}}}

(***************************************************************************)
(* core/adapters/catalog_copernicus.py: CopernicusClient.download          *)
(***************************************************************************)
\* range(5): the number of requests the redirect loop may issue
MaxRequests == 5

\* what the server answers to one request
\* "conn_error": session.get raises (time-out, connection lost)
ResponseKinds == {"ok", "http_error", "redirect", "redirect_noloc", "conn_error"}

\* the loop of download allowed one request more
RECURSIVE FollowRedirectsOneMore(_, _)
FollowRedirectsOneMore(responses, i) ==
    IF i > MaxRequests + 1 THEN i
    ELSE IF responses[i] = "redirect" THEN FollowRedirectsOneMore(responses, i + 1)
    ELSE i

\* the loop of download going on after a redirect that names no Location
RECURSIVE FollowRedirectsWithoutLocation(_, _)
FollowRedirectsWithoutLocation(responses, i) ==
    IF i > MaxRequests THEN i
    ELSE IF responses[i] \in {"redirect", "redirect_noloc"}
         THEN FollowRedirectsWithoutLocation(responses, i + 1)
    ELSE i

RECURSIVE FollowRedirects(_, _)
\* the for-loop of download: the number of the request whose response ends the
\* loop, or MaxRequests + 1 when the loop runs out (the for ... else branch)
FollowRedirects(responses, i) ==
    IF i > MaxRequests THEN i
    ELSE IF responses[i] = "redirect" THEN FollowRedirects(responses, i + 1)
    ELSE i

\* product_name if product_name.endswith(".zip") else f"{product_name}.zip"
ArchiveName(product_name) ==
    IF Last(product_name) = ".zip" THEN product_name ELSE Append(product_name, ".zip")

\* body: the number of the response whose content went into the archive
\* file, 0 when no file was written
DownloadResult(err, path, requests, created, body) ==
    [error |-> err, path |-> path, requests |-> requests, created |-> created,
     body |-> body]

\* product: [Id: Optional name, Name: Optional name]; responses[i] is the answer
\* to the i-th request
download(product, dst_dir, responses) ==
    LET product_name == IF product.Name # None THEN The(product.Name) ELSE The(product.Id)
        target_path == Append(dst_dir, ArchiveName(product_name))
        last == FollowRedirects(responses, 1)
    IN IF product.Id = None
       THEN DownloadResult(Err("product_without_id", {}), None, 0, {dst_dir}, 0)
       ELSE IF last > MaxRequests
            THEN DownloadResult(Err("exceeded_redirects", {}), None, last - 1, {dst_dir}, 0)
       ELSE IF responses[last] = "conn_error"
            THEN DownloadResult(Err("request_failed", {}), None, last, {dst_dir}, 0)
       ELSE IF responses[last] = "http_error"
            THEN DownloadResult(Err("http_error", {}), None, last, {dst_dir}, 0)
       ELSE DownloadResult(NoError, Some(target_path), last, {dst_dir, target_path}, last)

(***************************************************************************)
(* core/engine/safe_extractor.py: SafeExtractor.extract, as the pipeline   *)
(* sees it.  `located` are the aliases whose band file _locate_band finds; *)
(* `broken` stands for an archive or band file that cannot be read.        *)
(***************************************************************************)
ExtractorAliases ==
    {"coastal", "blue", "green", "red", "rededge1", "rededge2", "rededge3", "nir",
     "rededge4", "water_vapor", "cirrus", "swir1", "swir2"}

ExtractResult(err, bands, created) == [error |-> err, bands |-> bands, created |-> created]

\* extract giving up at the first band that _locate_band does not find
ExtractFailsOnMissing(safe_archive, destination, located, broken) ==
    IF broken \/ located # ExtractorAliases
    THEN ExtractResult(Err("extract_failed", {}), <<>>, {destination})
    ELSE LET extracted == [alias \in located |-> Append(destination, Tif(alias))]
         IN ExtractResult(NoError, extracted,
                          {destination} \cup {extracted[a] : a \in located})

extract(safe_archive, destination, located, broken) ==
    IF broken
    THEN ExtractResult(Err("extract_failed", {}), <<>>, {destination})
    ELSE LET extracted == [alias \in located |-> Append(destination, Tif(alias))]
         IN ExtractResult(NoError, extracted,
                          {destination} \cup {extracted[a] : a \in located})

\* SafeExtractor.extract with the files and their modification times.
\* src: the product, [kind: "dir" or "zip", bad: the archive cannot be unpacked,
\* located: the aliases whose band file _locate_band finds, jp2: the
\* modification time of each band file of a directory product]; tif: the
\* modification time of <alias>.tif in the destination, None when there is no
\* such file; now: the time of the call.
\* A .zip product is unpacked by ZipFile.extractall into a fresh temporary
\* directory, so each of its band files is created at the time of the call.
\* The OSError handler around the two stat() calls is entered only when a file
\* disappears between exists() and stat(), that is when another process works
\* on the same directories, which callers must exclude.
Jp2Mtime(src, alias, now) == IF src.kind = "zip" THEN now ELSE src.jp2[alias]

\* the cache consulted without looking at the modification times
IsCachedAlways(src, tif, alias, now) == tif[alias] # None

\* tif_path.exists() and tif_mtime >= jp2_mtime
IsCached(src, tif, alias, now) ==
    /\ tif[alias] # None
    /\ The(tif[alias]) >= Jp2Mtime(src, alias, now)

SafeExtractor_extract(src, destination, tif, now) ==
    LET rewritten == {a \in src.located : ~IsCached(src, tif, a, now)}
    IN IF src.bad
       THEN [error |-> Err("extract_failed", {}), extracted |-> <<>>, rewritten |-> {},
             tif |-> tif]
       ELSE [error |-> NoError,
             extracted |-> [a \in src.located |-> Append(destination, Tif(a))],
             rewritten |-> rewritten,
             tif |-> [a \in DOMAIN tif |-> IF a \in rewritten THEN Some(now) ELSE tif[a]]]

(***************************************************************************)
(* core/pipeline/models.py: WorkflowContext                                *)
(***************************************************************************)
\* WorkflowContext(config=..., params=...): the other fields take their defaults
\* and __post_init__ loads the area of interest from params.aoi_path
WorkflowContext(config, params) ==
    [config |-> config, params |-> params, aoi |-> <<"aoi of", params.aoi_path>>,
     product_path |-> None, product_title |-> None,
     bands |-> <<>>, indices |-> <<>>, maps |-> <<>>]

\* register_map that forgets the path
RegisterMapForgets(c, path) == c

\* WorkflowContext.register_map
register_map(c, path) == [c EXCEPT !.maps = Append(c.maps, path)]

(***************************************************************************)
(* core/pipeline/steps.py: the four steps.  A step run yields the context  *)
(* it leaves, the error it raised (or none), the collaborator operations   *)
(* it invoked and the paths it created.                                    *)
(***************************************************************************)
Call(op, arg) == [op |-> op, arg |-> arg]
StepResult(c, err, cs, created) == [ctx |-> c, error |-> err, calls |-> cs, created |-> created]

SetProductPathOnly(c, path) == [c EXCEPT !.product_path = Some(path)]

SetProductResetBands(c, path) ==
    [c EXCEPT !.product_path = Some(path),
              !.product_title = Some(infer_product_name(path)),
              !.bands = <<>>]

\* context.product_path = path; context.product_title = infer_product_name(path)
SetProduct(c, path) ==
    [c EXCEPT !.product_path = Some(path),
              !.product_title = Some(infer_product_name(path))]

\* ResolveProductStep.run that opens a session before it looks at safe_path
ResolveProductOpensSessionFirst(c, cl, exist, e) ==
    LET params == c.params
        path == Resolve(The(params.safe_path))
        download_dir == DATA_RAW_DIR
        opened == <<Call("open_session", <<>>)>>
        queried == Append(opened, Call("query_latest", <<>>))
        asked == Append(queried, Call("download", <<download_dir>>))
        d == download(The(e.product), download_dir, e.responses)
    IN IF params.safe_path # None
       THEN IF path \notin exist
            THEN StepResult(c, Err("safe_not_found", {}), <<>>, {})
            ELSE StepResult(SetProduct(c, path), NoError, opened, {})
       ELSE IF cl = None
            THEN StepResult(c, Err("no_client", {}), <<>>, {})
       ELSE IF e.auth # "ok"
            THEN StepResult(c, Err("auth_failed", {}), opened, {download_dir})
       ELSE IF e.query # "ok"
            THEN StepResult(c, Err("query_failed", {}), queried, {download_dir})
       ELSE IF e.product = None
            THEN StepResult(c, Err("no_product", {}), queried, {download_dir})
       ELSE IF d.error # NoError
            THEN StepResult(c, d.error, asked, d.created)
       ELSE StepResult(SetProduct(c, The(d.path)), NoError, asked, d.created)

\* e: [auth, query, product, responses]: what the catalog does when asked
ResolveProductStep_run(c, cl, exist, e) ==
    LET params == c.params
        path == Resolve(The(params.safe_path))
        download_dir == DATA_RAW_DIR
        opened == <<Call("open_session", <<>>)>>
        queried == Append(opened, Call("query_latest", <<>>))
        asked == Append(queried, Call("download", <<download_dir>>))
        d == download(The(e.product), download_dir, e.responses)
    IN IF params.safe_path # None
       THEN IF path \notin exist
            THEN StepResult(c, Err("safe_not_found", {}), <<>>, {})
            ELSE StepResult(SetProduct(c, path), NoError, <<>>, {})
       ELSE IF cl = None
            THEN StepResult(c, Err("no_client", {}), <<>>, {})
       ELSE IF e.auth # "ok"
            THEN StepResult(c, Err("auth_failed", {}), opened, {download_dir})
       ELSE IF e.query # "ok"
            THEN StepResult(c, Err("query_failed", {}), queried, {download_dir})
       ELSE IF e.product = None
            THEN StepResult(c, Err("no_product", {}), queried, {download_dir})
       ELSE IF d.error # NoError
            THEN StepResult(c, d.error, asked, d.created)
       ELSE StepResult(SetProduct(c, The(d.path)), NoError, asked, d.created)

\* e: [located, broken]
ExtractBandsStep_run(c, e) ==
    LET destination == Append(DATA_PROCESSED_DIR, The(c.product_title))
        x == extract(The(c.product_path), destination, e.located, e.broken)
        called == <<Call("extract", <<The(c.product_path), destination>>)>>
    IN IF c.product_path = None \/ c.product_title = None
       THEN StepResult(c, Err("product_unresolved", {}), <<>>, {})
       ELSE IF x.error # NoError
            THEN StepResult(c, x.error, called, x.created)
       ELSE StepResult([c EXCEPT !.bands = x.bands], NoError, called, x.created)

ComputeIndicesStepNoBandsCheck(c, e) ==
    LET indices_dir == DATA_PROCESSED_DIR \o <<The(c.product_title), <<"indices">>>>
        a == analyse_scene(c.bands, indices_dir, c.params.indices, e.failAt)
        called == <<Call("analyse_scene", <<indices_dir>>)>>
    IN IF c.product_title = None
       THEN StepResult(c, Err("product_unresolved", {}), <<>>, {})
       ELSE IF a.error # NoError
            THEN StepResult(c, a.error, called, Written(a.io))
       ELSE StepResult([c EXCEPT !.indices = a.outputs], NoError, called, Written(a.io))

\* e: [failAt]
ComputeIndicesStep_run(c, e) ==
    LET indices_dir == DATA_PROCESSED_DIR \o <<The(c.product_title), <<"indices">>>>
        requested == c.params.indices
        a == analyse_scene(c.bands, indices_dir, requested, e.failAt)
        called == <<Call("analyse_scene", <<indices_dir>>)>>
    IN IF DOMAIN c.bands = {}
       THEN StepResult(c, Err("no_bands", {}), <<>>, {})
       ELSE IF c.product_title = None
            THEN StepResult(c, Err("product_unresolved", {}), <<>>, {})
       ELSE IF a.error # NoError
            THEN StepResult(c, a.error, called, Written(a.io))
       ELSE StepResult([c EXCEPT !.indices = a.outputs], NoError, called, Written(a.io))

\* sorted() of index names
AlphaOrder ==
    <<"ci_rededge", "evi", "msi", "ndmi", "ndre", "ndre1",
      "ndre2", "ndre3", "ndre4", "ndvi", "ndwi", "sipi">>

\* the paths in the order the default request computes them (the order of
\* the registry), not sorted
IndexPathsInRegistryOrder(indices) ==
    LET names == SeqOfSet(RegistryOrder, DOMAIN indices)
    IN [i \in DOMAIN names |-> indices[names[i]]]

\* [path for _, path in sorted(context.indices.items())]
SortedIndexPaths(indices) ==
    LET names == SeqOfSet(AlphaOrder, DOMAIN indices)
    IN [i \in DOMAIN names |-> indices[names[i]]]

\* e: [renderFails]
RenderMultiIndexStep_run(c, e) ==
    LET output_dir == MAPAS_DIR
        output_path == Append(output_dir, <<"compare_indices_all", ".html">>)
        index_paths == SortedIndexPaths(c.indices)
        called == <<Call("render", index_paths)>>
    IN IF DOMAIN c.indices = {}
       THEN StepResult(c, Err("no_indices", {}), <<>>, {})
       ELSE IF e.renderFails
            THEN StepResult(c, Err("render_failed", {}), called, {output_dir})
       ELSE StepResult(register_map(c, output_path), NoError, called,
                       {output_dir, output_path})

(***************************************************************************)
(* Bounds and input sets of the pipeline runs                              *)
(***************************************************************************)
\* the longest step list handed to a bare Pipeline
MaxCustomSteps == 2
\* analyse_scene: file operations 1..MaxIoFail may be the one that fails
MaxIoFail == 2

StepNames == {"ResolveProduct", "ExtractBands", "ComputeIndices", "RenderComposite"}

SafePaths ==
    { <<Root, <<"in">>, <<"S2A", ".SAFE">>>>,
      <<<<"in">>, <<"S2B", ".SAFE", ".zip">>>>,
      <<Root, <<"in">>, <<".SAFE">>>> }

\* what exists on disk before the run: every local product, or none
ExistingChoices == { {Resolve(p) : p \in SafePaths}, {} }

IndicesChoices ==
    { None, Some(<<"ndvi">>), Some(<<"ndwi", "ndvi", "ndwi">>), Some(<<"bogus", "ndvi">>),
      Some(<<>>) }

ParamsChoices ==
    [safe_path : {None} \cup {Some(p) : p \in SafePaths},
     indices : IndicesChoices,
     aoi_path : {<<Root, <<"dados">>, <<"map", ".geojson">>>>}]

ProductChoices ==
    { None,
      Some([Id |-> Some(<<"id7">>), Name |-> Some(<<"S2C", ".SAFE">>)]),
      Some([Id |-> Some(<<"id7">>), Name |-> None]),
      Some([Id |-> None, Name |-> Some(<<"S2C", ".SAFE">>)]) }

\* server behaviours: the answers to requests 1..MaxRequests
ResponseChoices ==
    { [i \in 1..MaxRequests |-> "ok"],
      [i \in 1..MaxRequests |-> IF i < 3 THEN "redirect" ELSE "ok"],
      [i \in 1..MaxRequests |-> "redirect"],
      [i \in 1..MaxRequests |-> IF i < 2 THEN "redirect" ELSE "redirect_noloc"],
      [i \in 1..MaxRequests |-> "http_error"] }

CatalogChoices ==
    [auth : {"ok", "fail"}, query : {"ok"}, product : ProductChoices,
     responses : ResponseChoices]
    \cup [auth : {"ok"}, query : {"fail"}, product : {None},
          responses : {[i \in 1..MaxRequests |-> "ok"]}]

LocatedChoices ==
    { {}, {"nir"}, {"nir", "red"}, {"nir", "red", "swir1"}, ExtractorAliases }

\* contexts a caller of a bare Pipeline may hand in
PresetBands == [a \in {"nir", "red"} |-> <<Root, <<"bands">>, Tif(a)>>]
PresetIndices ==
    [n \in {"ndwi", "evi"} |-> <<Root, <<"idx">>, Tif(n)>>]
PresetContexts(config, params) ==
    LET fresh == WorkflowContext(config, params)
    IN { fresh,
         [fresh EXCEPT !.bands = PresetBands],
         [fresh EXCEPT !.product_path = Some(<<Root, <<"in">>, <<"S2A", ".SAFE">>>>)],
         [fresh EXCEPT !.indices = PresetIndices] }

RECURSIVE SeqsUpTo(_, _)
\* the sequences over S of length 1..n
SeqsUpTo(S, n) ==
    IF n = 0 THEN {}
    ELSE LET shorter == SeqsUpTo(S, n - 1)
         IN {<<x>> : x \in S} \cup {Append(t, x) : t \in shorter, x \in S}

(***************************************************************************)
(* core/pipeline/executor.py and core/pipeline/base.py                     *)
(***************************************************************************)
\* WorkflowPipeline._build_client_if_needed
_build_client_if_needed(config, params) ==
    IF params.safe_path # None THEN [error |-> NoError, client |-> None]
    ELSE IF ~config.creds THEN [error |-> Err("credentials_missing", {}), client |-> None]
    ELSE [error |-> NoError, client |-> Some("CopernicusClient")]

BuildStepsSwapped == <<"ResolveProduct", "ComputeIndices", "ExtractBands", "RenderComposite">>

\* the list WorkflowPipeline._build_steps returns
_build_steps == <<"ResolveProduct", "ExtractBands", "ComputeIndices", "RenderComposite">>

AfterStepSwallow(err) == [pc |-> "loop", error |-> NoError, advance |-> 1]

\* Pipeline.run: `for step in self.steps: step.run(context)`, with no handler
\* around the call: an error leaves the loop and reaches the caller as it is
AfterStep(err) ==
    IF err # NoError THEN [pc |-> "raised", error |-> err, advance |-> 0]
    ELSE [pc |-> "loop", error |-> NoError, advance |-> 1]

\* what each step needs of the context it is given
Precondition(name, c) ==
    CASE name = "ResolveProduct" -> TRUE
      [] name = "ExtractBands" -> c.product_path # None /\ c.product_title # None
      [] name = "ComputeIndices" -> DOMAIN c.bands # {} /\ c.product_title # None
      [] name = "RenderComposite" -> DOMAIN c.indices # {}

InitWorkflow ==
    /\ entry = "WorkflowPipeline"
    /\ pc = "new"
    /\ steps = <<>>
    /\ client = None
    /\ \E config \in [creds : BOOLEAN], params \in ParamsChoices :
            ctx = WorkflowContext(config, params)

InitPipeline ==
    /\ entry = "Pipeline"
    /\ pc = "loop"
    /\ steps \in SeqsUpTo(StepNames, MaxCustomSteps)
    /\ client \in {None, Some("CopernicusClient")}
    /\ \E params \in ParamsChoices : ctx \in PresetContexts([creds |-> TRUE], params)

InitPipe ==
    /\ InitWorkflow \/ InitPipeline
    /\ stepIdx = 1
    /\ error = NoError
    /\ fs \in ExistingChoices
    /\ calls = <<>>
    /\ trace = <<>>

IdlePipe ==
    /\ entry = "idle"
    /\ pc = "idle"
    /\ steps = <<>>
    /\ stepIdx = 1
    /\ client = None
    /\ ctx = <<>>
    /\ error = NoError
    /\ fs = {}
    /\ calls = <<>>
    /\ trace = <<>>

\* WorkflowPipeline.run up to the call of Pipeline.run: the context is created
\* (which reads the AOI file) and the steps are built
BuildSteps ==
    /\ pc = "new"
    /\ \E aoiReadable \in BOOLEAN :
         LET b == _build_client_if_needed(ctx.config, ctx.params)
         IN IF ~aoiReadable
            THEN pc' = "raised" /\ error' = Err("aoi_unreadable", {})
                 /\ UNCHANGED <<steps, client>>
            ELSE IF b.error # NoError
                 THEN pc' = "raised" /\ error' = b.error /\ UNCHANGED <<steps, client>>
                 ELSE pc' = "loop" /\ error' = error
                      /\ steps' = _build_steps /\ client' = b.client
    /\ UNCHANGED <<entry, stepIdx, ctx, fs, calls, trace>>
    /\ UNCHANGED <<indexVars, mapVars, extractVars>>

\* one iteration of the loop of Pipeline.run, given what the step did
\* one iteration of the loop that removes what earlier steps wrote when the
\* step fails
FinishStepRollback(name, r, e) ==
    LET after == AfterStep(r.error)
    IN /\ ctx' = r.ctx
       /\ fs' = IF r.error = NoError THEN fs \cup r.created
               ELSE fs \ UNION {trace[i].created : i \in DOMAIN trace}
       /\ calls' = calls \o r.calls
       /\ trace' = Append(trace, [step |-> name, pre |-> Precondition(name, ctx),
                                  before |-> ctx, after |-> r.ctx, error |-> r.error,
                                  calls |-> r.calls, created |-> r.created,
                                  env |-> e])
       /\ pc' = after.pc
       /\ error' = after.error
       /\ stepIdx' = stepIdx + after.advance
       /\ UNCHANGED <<entry, steps, client>>
       /\ UNCHANGED <<indexVars, mapVars, extractVars>>

\* e: what the step found in its environment, kept in the trace for ExtractBands
FinishStep(name, r, e) ==
    LET after == AfterStep(r.error)
    IN /\ ctx' = r.ctx
       /\ fs' = fs \cup r.created
       /\ calls' = calls \o r.calls
       /\ trace' = Append(trace, [step |-> name, pre |-> Precondition(name, ctx),
                                  before |-> ctx, after |-> r.ctx, error |-> r.error,
                                  calls |-> r.calls, created |-> r.created,
                                  env |-> e])
       /\ pc' = after.pc
       /\ error' = after.error
       /\ stepIdx' = stepIdx + after.advance
       /\ UNCHANGED <<entry, steps, client>>
       /\ UNCHANGED <<indexVars, mapVars, extractVars>>

NextStepIs(name) == pc = "loop" /\ stepIdx <= Len(steps) /\ steps[stepIdx] = name

RunResolveProduct ==
    /\ NextStepIs("ResolveProduct")
    /\ \E e \in CatalogChoices :
          FinishStep("ResolveProduct", ResolveProductStep_run(ctx, client, fs, e),
                     [session |-> e.auth = "ok", answered |-> e.query = "ok",
                      found |-> e.product # None])

RunExtractBands ==
    /\ NextStepIs("ExtractBands")
    /\ \E e \in [located : LocatedChoices, broken : BOOLEAN] :
          FinishStep("ExtractBands", ExtractBandsStep_run(ctx, e), e)

RunComputeIndices ==
    /\ NextStepIs("ComputeIndices")
    /\ \E e \in [failAt : 0..MaxIoFail] :
          FinishStep("ComputeIndices", ComputeIndicesStep_run(ctx, e), <<>>)

RunRenderComposite ==
    /\ NextStepIs("RenderComposite")
    /\ \E e \in [renderFails : BOOLEAN] :
          FinishStep("RenderComposite", RenderMultiIndexStep_run(ctx, e), <<>>)

\* the loop of Pipeline.run is over: the context is returned
PipelineReturn ==
    /\ pc = "loop"
    /\ stepIdx > Len(steps)
    /\ pc' = "returned"
    /\ UNCHANGED <<entry, steps, stepIdx, client, ctx, error, fs, calls, trace>>
    /\ UNCHANGED <<indexVars, mapVars, extractVars>>

NextPipe ==
    \/ BuildSteps
    \/ RunResolveProduct
    \/ RunExtractBands
    \/ RunComputeIndices
    \/ RunRenderComposite
    \/ PipelineReturn

(***************************************************************************)
(* core/engine/renderers/multi_index_map.py: the document render writes    *)
(* and what a browser does with it (specification SpecMap)                 *)
(***************************************************************************)
\* the most index rasters handed to render
MaxLayers == 3
\* the most clicks on panel entries or layer-control boxes that are followed
MaxClicks == 2

LayerPool == {"evi", "ndvi", "ndwi"}

IndexPathChoices == {<<>>} \cup SeqsUpTo(LayerPool, MaxLayers)

BaseId == <<"__base__", 0>>
\* feature.get_name(): a fresh element name for each feature group
FeatureId(position) == <<"feature_group", position>>

\* Path(idx_path).stem.upper()
Upper(stem) ==
    CASE stem = "evi" -> "EVI"
      [] stem = "ndvi" -> "NDVI"
      [] stem = "ndwi" -> "NDWI"
      [] OTHER -> stem

\* Python < on two finite floats
FLt(a, b) == a.n * b.d < b.n * a.d

\* min(b[k] for b in geom_bounds) and max(...), for a non-empty list of boxes
RECURSIVE MinOf(_, _)
MinOf(boxes, k) ==
    IF Len(boxes) = 1 THEN boxes[1][k]
    ELSE LET m == MinOf(Tail(boxes), k)
         IN IF FLt(m, boxes[1][k]) THEN m ELSE boxes[1][k]

RECURSIVE MaxOf(_, _)
MaxOf(boxes, k) ==
    IF Len(boxes) = 1 THEN boxes[1][k]
    ELSE LET m == MaxOf(Tail(boxes), k)
         IN IF FLt(boxes[1][k], m) THEN m ELSE boxes[1][k]

\* a box is <<min_lon, min_lat, max_lon, max_lat>>
Box(a, b, c, d) == <<Fin(a, 1), Fin(b, 1), Fin(c, 1), Fin(d, 1)>>

\* _compute_clip_bounds with the whole of width * padding_factor on each side
ClipBoundsFullPad(overlay_bounds, padding_factor) ==
    LET geom_bounds == SelectSeq(overlay_bounds, LAMBDA b : b # None)
        boxes == [i \in DOMAIN geom_bounds |-> The(geom_bounds[i])]
        width == FSub(MaxOf(boxes, 3), MinOf(boxes, 1))
        height == FSub(MaxOf(boxes, 4), MinOf(boxes, 2))
        pad_lon == FMul(width, padding_factor)
        pad_lat == FMul(height, padding_factor)
    IN IF geom_bounds = <<>> THEN None
       ELSE Some(<<FSub(MinOf(boxes, 1), pad_lon), FSub(MinOf(boxes, 2), pad_lat),
                   FAdd(MaxOf(boxes, 3), pad_lon), FAdd(MaxOf(boxes, 4), pad_lat)>>)

\* overlay_bounds: extract_geometry_bounds of each overlay document, None for a
\* document without a geometry
_compute_clip_bounds(overlay_bounds, padding_factor) ==
    LET geom_bounds == SelectSeq(overlay_bounds, LAMBDA b : b # None)
        boxes == [i \in DOMAIN geom_bounds |-> The(geom_bounds[i])]
        min_lon_geo == MinOf(boxes, 1)
        min_lat_geo == MinOf(boxes, 2)
        max_lon_geo == MaxOf(boxes, 3)
        max_lat_geo == MaxOf(boxes, 4)
        width == FSub(max_lon_geo, min_lon_geo)
        height == FSub(max_lat_geo, min_lat_geo)
        pad_lon == FDiv(FMul(width, padding_factor), Fin(2, 1))
        pad_lat == FDiv(FMul(height, padding_factor), Fin(2, 1))
    IN IF geom_bounds = <<>> THEN None
       ELSE Some(<<FSub(min_lon_geo, pad_lon), FSub(min_lat_geo, pad_lat),
                   FAdd(max_lon_geo, pad_lon), FAdd(max_lat_geo, pad_lat)>>)

LayerShownAlways(position) == TRUE

\* folium.FeatureGroup(..., show=(position == 0))
LayerShown(position) == position = 0

\* load (path, clip_bounds?) of the raster toolkit: the geographic bounds of
\* what was read, the raster's extent or its intersection with the clip window
LoadedBounds(extent, clip_bounds) ==
    IF clip_bounds = None THEN extent
    ELSE LET c == The(clip_bounds)
         IN <<IF FLt(extent[1], c[1]) THEN c[1] ELSE extent[1],
              IF FLt(extent[2], c[2]) THEN c[2] ELSE extent[2],
              IF FLt(c[3], extent[3]) THEN c[3] ELSE extent[3],
              IF FLt(c[4], extent[4]) THEN c[4] ELSE extent[4]>>

\* the overlay placed at the bounds of its own raster, whatever the clip box
OverlayBoundsOwn(bounds, clip_bounds) == bounds

\* o_min_lon, ... = bounds; if clip_bounds is not None: ... = clip_bounds
OverlayBounds(bounds, clip_bounds) ==
    IF clip_bounds # None THEN The(clip_bounds) ELSE bounds

RenderResult(err, written, layers, panel, entries, clip_bounds, ops) ==
    [state |-> "rendered", error |-> err, written |-> written, layers |-> layers,
     panel |-> panel, entries |-> entries, clip_bounds |-> clip_bounds, ops |-> ops]

\* one operation of render: `layer` is the position (from 1) of the index
\* path it works on, 0 for the operations that belong to no layer
RenderOp(op, layer) == [op |-> op, layer |-> layer]

\* load_geojson(path) for each overlay
OverlayLoads(overlay_bounds) ==
    [k \in DOMAIN overlay_bounds |-> RenderOp("load_geojson", 0)]

\* first_data, ... = load_raster(index_paths[0], ...) and what follows it
\* before the loop
FirstRasterOps(options) ==
    <<RenderOp("first_load_raster", 0)>>
    \o (IF options.sharpen THEN <<RenderOp("first_apply_unsharp_mask", 0)>> ELSE <<>>)
    \o <<RenderOp("first_upsample_raster", 0), RenderOp("first_apply_smoothing", 0)>>

\* the loop body without the second masking
LayerOpsMaskOnce(position, options) ==
    <<RenderOp("load_raster", position)>>
    \o (IF options.sharpen THEN <<RenderOp("apply_unsharp_mask", position)>> ELSE <<>>)
    \o (IF options.clip THEN <<RenderOp("_mask_with_geojson", position)>> ELSE <<>>)
    \o <<RenderOp("upsample_raster", position), RenderOp("apply_smoothing", position)>>
    \o <<RenderOp("generate_rgba", position)>>

\* the loop body of render up to generate_rgba, for the path at `position`
LayerOps(position, options) ==
    <<RenderOp("load_raster", position)>>
    \o (IF options.sharpen THEN <<RenderOp("apply_unsharp_mask", position)>> ELSE <<>>)
    \o (IF options.clip THEN <<RenderOp("_mask_with_geojson", position)>> ELSE <<>>)
    \o <<RenderOp("upsample_raster", position), RenderOp("apply_smoothing", position)>>
    \o (IF options.clip /\ FLt(One, options.upsample)
        THEN <<RenderOp("_mask_with_geojson", position)>> ELSE <<>>)
    \o <<RenderOp("generate_rgba", position)>>

\* the loop over the first n index paths; generate_rgba raises on the layer
\* `bad`, whose raster has no finite sample, and the loop ends there
RECURSIVE LoopOps(_, _, _)
LoopOps(n, options, bad) ==
    IF n = 0 THEN <<>>
    ELSE LoopOps(n - 1, options, bad)
         \o LayerOps(n, options)
         \o (IF n = bad THEN <<>> ELSE <<RenderOp("add_overlay", n)>>)

\* the save at the end of render writes the document
SaveOps == <<RenderOp("mkdir", 0), RenderOp("save", 0)>>

\* render that saves the document before it prepares the layers
RenderOpsSaveFirst(index_paths, options, overlay_bounds, bad) ==
    IF index_paths = <<>> THEN <<>>
    ELSE OverlayLoads(overlay_bounds) \o FirstRasterOps(options) \o SaveOps
         \o LoopOps(IF bad \in DOMAIN index_paths THEN bad ELSE Len(index_paths),
                    options, bad)

\* the operations of one call of render, in order: none when there is no index
\* path, those up to the failing generate_rgba when a layer is bad, and
\* otherwise all of them with the save at the end
RenderOps(index_paths, options, overlay_bounds, bad) ==
    IF index_paths = <<>> THEN <<>>
    ELSE OverlayLoads(overlay_bounds) \o FirstRasterOps(options)
         \o (IF bad \in DOMAIN index_paths
             THEN LoopOps(bad, options, bad)
             ELSE LoopOps(Len(index_paths), options, 0) \o SaveOps)

\* base_map.save was reached
Saved(ops) == \E k \in DOMAIN ops : ops[k].op = "save"

\* index_paths: the stems of the rasters, in order; options: enable_panel, clip
\* and padding_factor; overlay_bounds: the geometry bounds of each overlay
\* document; extents: the geographic extent of each raster; bad: the number
\* of the layer whose raster has no finite sample (0: none)
render(index_paths, options, overlay_bounds, extents, bad) ==
    LET clip_bounds == IF options.clip
                       THEN _compute_clip_bounds(overlay_bounds, options.padding_factor)
                       ELSE None
        layers == [i \in DOMAIN index_paths |->
                      [stem |-> index_paths[i], layer_id |-> FeatureId(i - 1),
                       show |-> LayerShown(i - 1),
                       window |-> clip_bounds,
                       loaded |-> LoadedBounds(extents[index_paths[i]], clip_bounds),
                       bounds |-> OverlayBounds(
                                     LoadedBounds(extents[index_paths[i]], clip_bounds),
                                     clip_bounds)]]
        layer_entries == [i \in DOMAIN layers |->
                             [name |-> Upper(layers[i].stem),
                              layer_id |-> layers[i].layer_id]]
        \* _attach_panel: entries = [{"name": "Mapa base", "layer_id": "__base__"}] + ...
        entries == <<[name |-> "Mapa base", layer_id |-> BaseId]>> \o layer_entries
        ops == RenderOps(index_paths, options, overlay_bounds, bad)
    IN IF index_paths = <<>>
       THEN RenderResult(Err("no_index_paths", {}), Saved(ops), <<>>, FALSE, <<>>, None, ops)
       ELSE IF bad \in DOMAIN index_paths
            THEN RenderResult(Err("no_valid_data", {}), Saved(ops), <<>>, FALSE, <<>>, None,
                              ops)
       ELSE IF options.enable_panel /\ layer_entries # <<>>
            THEN RenderResult(NoError, Saved(ops), layers, TRUE, entries, clip_bounds, ops)
       ELSE RenderResult(NoError, Saved(ops), layers, FALSE, <<>>, clip_bounds, ops)

\* setActiveLayer without the removals: the selected layer is added to the map
\* and the layers already there stay
SetActiveLayerAddOnly(layerId, entries, onMap) ==
    LET overlayIds == {entries[i].layer_id : i \in DOMAIN entries} \ {BaseId}
    IN [onMap |-> onMap \cup ({layerId} \cap overlayIds),
        active |-> {entries[i].layer_id : i \in {j \in DOMAIN entries :
                                                    entries[j].layer_id = layerId}},
        panelHidden |-> FALSE]

\* the panel script: setActiveLayer(layerId), on the set of index layers that
\* are on the map; yields the new set and the list items marked active
setActiveLayer(layerId, entries, onMap) ==
    LET overlayEntries == SelectSeq(entries, LAMBDA en : en.layer_id # BaseId)
        overlayIds == {overlayEntries[i].layer_id : i \in DOMAIN overlayEntries}
        kept == (onMap \ overlayIds) \cup ({layerId} \cap overlayIds)
        shown == IF layerId = BaseId THEN kept \ overlayIds ELSE kept
    IN [onMap |-> shown,
        active |-> {entries[i].layer_id : i \in {j \in DOMAIN entries :
                                                    entries[j].layer_id = layerId}},
        panelHidden |-> FALSE]

\* the selection made by the whenReady callback of the panel script
DefaultId(entries) ==
    LET hasBaseEntry == \E i \in DOMAIN entries : entries[i].layer_id = BaseId
    IN IF hasBaseEntry THEN BaseId ELSE entries[1].layer_id

\* RenderOptions: the panel switch, the clip flag and the padding factor
\* (default 0.3)
\* the options of the documents that are opened: sharpen and upsample at
\* their defaults
OptionChoices ==
    [enable_panel : BOOLEAN, clip : BOOLEAN, padding_factor : {Zero, Fin(3, 10)},
     sharpen : {FALSE}, upsample : {One}]

\* the overlay documents: none, one without a geometry, one polygon, two polygons
OverlayChoices ==
    {<<>>, <<None>>, <<Some(Box(1, 1, 2, 2))>>,
     <<Some(Box(1, 1, 2, 2)), Some(Box(3, 1, 4, 3))>>}

\* the rasters all on one extent, or one of them on a wider one
ExtentChoices ==
    {[st \in LayerPool |-> Box(0, 0, 4, 4)],
     [st \in LayerPool |-> IF st = "ndvi" THEN Box(0, 0, 5, 4) ELSE Box(0, 0, 4, 4)]}

InitMap ==
    /\ \E paths \in IndexPathChoices, options \in OptionChoices,
          overlays \in OverlayChoices, extents \in ExtentChoices, bad \in 0..MaxLayers :
          doc = [state |-> "call", index_paths |-> paths, options |-> options,
                 overlays |-> overlays, extents |-> extents, bad |-> bad]
    /\ page = [state |-> "none", onMap |-> {}, active |-> {}, panelHidden |-> TRUE,
               clicks |-> 0, selected |-> None]

\* MultiIndexMapRenderer.render, from call to return or raise
Render ==
    /\ doc.state = "call"
    /\ doc' = render(doc.index_paths, doc.options, doc.overlays, doc.extents, doc.bad)
    /\ UNCHANGED page
    /\ UNCHANGED <<pipeVars, indexVars, extractVars>>

\* the browser runs the map script of the document: the map is created and
\* every feature group with show=True is added to it
OpenPage ==
    /\ doc.state = "rendered"
    /\ doc.written
    /\ page.state = "none"
    /\ page' = [page EXCEPT !.state = "scripted",
                            !.onMap = {doc.layers[i].layer_id :
                                          i \in {j \in DOMAIN doc.layers : doc.layers[j].show}}]
    /\ UNCHANGED doc
    /\ UNCHANGED <<pipeVars, indexVars, extractVars>>

\* DOMContentLoaded: with a panel, its script selects the default entry once
\* the map is ready; without one the layer control leaves the layers alone
DomReady ==
    /\ page.state = "scripted"
    /\ IF doc.panel
       THEN LET sel == setActiveLayer(DefaultId(doc.entries), doc.entries, page.onMap)
            IN page' = [page EXCEPT !.state = "ready", !.onMap = sel.onMap,
                                    !.active = sel.active,
                                    !.panelHidden = sel.panelHidden,
                                    !.selected = Some(DefaultId(doc.entries))]
       ELSE page' = [page EXCEPT !.state = "ready"]
    /\ UNCHANGED doc
    /\ UNCHANGED <<pipeVars, indexVars, extractVars>>

\* a click on a list item of the panel
ClickEntry ==
    /\ page.state = "ready"
    /\ doc.panel
    /\ page.clicks < MaxClicks
    /\ \E i \in DOMAIN doc.entries :
          LET sel == setActiveLayer(doc.entries[i].layer_id, doc.entries, page.onMap)
          IN page' = [page EXCEPT !.onMap = sel.onMap, !.active = sel.active,
                                  !.panelHidden = sel.panelHidden,
                                  !.clicks = page.clicks + 1,
                                  !.selected = Some(doc.entries[i].layer_id)]
    /\ UNCHANGED doc
    /\ UNCHANGED <<pipeVars, indexVars, extractVars>>

\* a click on the close button of the panel: the panel is hidden
ClosePanel ==
    /\ page.state = "ready"
    /\ doc.panel
    /\ ~page.panelHidden
    /\ page' = [page EXCEPT !.panelHidden = TRUE]
    /\ UNCHANGED doc
    /\ UNCHANGED <<pipeVars, indexVars, extractVars>>

\* a click on a check box of folium.LayerControl: that overlay is toggled
ToggleLayer ==
    /\ page.state = "ready"
    /\ ~doc.panel
    /\ page.clicks < MaxClicks
    /\ \E i \in DOMAIN doc.layers :
          LET id == doc.layers[i].layer_id
          IN page' = [page EXCEPT !.onMap = IF id \in page.onMap
                                            THEN page.onMap \ {id}
                                            ELSE page.onMap \cup {id},
                                  !.clicks = page.clicks + 1]
    /\ UNCHANGED doc
    /\ UNCHANGED <<pipeVars, indexVars, extractVars>>

NextMap == Render \/ OpenPage \/ DomReady \/ ClickEntry \/ ClosePanel \/ ToggleLayer

InitMapOnly == IdlePipe /\ IdleIndex /\ InitMap /\ IdleExtract
SpecMap == InitMapOnly /\ [][NextMap]_vars

(***************************************************************************)
(* Claims about the workflow pipeline (specification Spec)                 *)
(***************************************************************************)
StandardOrder == <<"ResolveProduct", "ExtractBands", "ComputeIndices", "RenderComposite">>

\* C1: every run of WorkflowPipeline.run executes ResolveProduct, ExtractBands,
\* ComputeIndices, RenderComposite in exactly this order: the i-th step executed
\* is the i-th of that list (so none is repeated, reordered or run early), a step
\* runs only after the previous one returned normally, and a run that returns
\* has executed all four.
C1_StepsInOrder ==
    entry = "WorkflowPipeline" =>
        /\ Len(trace) <= Len(StandardOrder)
        /\ \A i \in DOMAIN trace :
              /\ trace[i].step = StandardOrder[i]
              /\ i > 1 => trace[i - 1].error = NoError
        /\ pc = "returned" => Len(trace) = Len(StandardOrder)

C1_Witness ==
    /\ entry = "WorkflowPipeline"
    /\ pc = "returned"
    /\ [i \in DOMAIN trace |-> trace[i].step] = StandardOrder

\* C2: when a step raises, the run ends there: that step is the last one
\* executed, and the caller of run receives exactly the error the step raised.
C2_ErrorReachesCaller ==
    \A i \in DOMAIN trace :
        trace[i].error # NoError =>
            /\ i = Len(trace)
            /\ pc = "raised"
            /\ error = trace[i].error

C2_Witness ==
    /\ pc = "raised"
    /\ trace # <<>>
    /\ Last(trace).error # NoError
    /\ error = Last(trace).error
    /\ Len(trace) < Len(steps)

PreconditionError(name, c) ==
    CASE name = "ExtractBands" -> Err("product_unresolved", {})
      [] name = "ComputeIndices" ->
            IF DOMAIN c.bands = {} THEN Err("no_bands", {}) ELSE Err("product_unresolved", {})
      [] name = "RenderComposite" -> Err("no_indices", {})
      [] OTHER -> NoError

\* C3: a step whose precondition on the context is unmet raises its
\* precondition error without calling its collaborator, creating a file or
\* touching the context: ExtractBands when product_path or product_title is
\* unset, ComputeIndices when bands is empty or product_title is unset,
\* RenderComposite when indices is empty.
C3_FailFast ==
    \A i \in DOMAIN trace :
        ~trace[i].pre =>
            /\ trace[i].error = PreconditionError(trace[i].step, trace[i].before)
            /\ trace[i].error # NoError
            /\ trace[i].calls = <<>>
            /\ trace[i].created = {}
            /\ trace[i].after = trace[i].before

\* extraction returned an empty mapping and ComputeIndices then refused to run
C3_Witness ==
    \E i \in DOMAIN trace :
        /\ i > 1
        /\ trace[i].step = "ComputeIndices"
        /\ ~trace[i].pre
        /\ trace[i - 1].step = "ExtractBands"
        /\ trace[i - 1].error = NoError
        /\ DOMAIN trace[i - 1].after.bands = {}

\* C8: after ResolveProduct returns normally product_path and product_title are
\* both set (local path and catalog download alike); after it fails both are as
\* they were before the step, hence unset in a run that started unresolved.
C8_ResolveSetsBoth ==
    \A i \in DOMAIN trace :
        trace[i].step = "ResolveProduct" =>
            IF trace[i].error = NoError
            THEN /\ trace[i].after.product_path # None
                 /\ trace[i].after.product_title # None
            ELSE /\ trace[i].after.product_path = trace[i].before.product_path
                 /\ trace[i].after.product_title = trace[i].before.product_title

\* a product was downloaded from the catalog and both fields were set from it
C8_Witness ==
    \E i \in DOMAIN trace :
        /\ trace[i].step = "ResolveProduct"
        /\ trace[i].error = NoError
        /\ trace[i].calls # <<>>
        /\ trace[i].before.product_title = None
        /\ trace[i].after.product_title = Some(<<"S2C">>)

ContextFields ==
    {"config", "params", "aoi", "product_path", "product_title", "bands", "indices", "maps"}

OwnedFields(name) ==
    CASE name = "ResolveProduct" -> {"product_path", "product_title"}
      [] name = "ExtractBands" -> {"bands"}
      [] name = "ComputeIndices" -> {"indices"}
      [] name = "RenderComposite" -> {"maps"}

\* C9: a step changes only the context fields it owns (ResolveProduct:
\* product_path and product_title; ExtractBands: bands; ComputeIndices: indices;
\* RenderComposite: maps, to which it at most appends one path); config, params
\* and aoi are changed by no step.
C9_StepsWriteOwnFields ==
    \A i \in DOMAIN trace :
        /\ \A f \in ContextFields \ OwnedFields(trace[i].step) :
              trace[i].after[f] = trace[i].before[f]
        /\ trace[i].step = "RenderComposite" =>
              \/ trace[i].after.maps = trace[i].before.maps
              \/ /\ Len(trace[i].after.maps) = Len(trace[i].before.maps) + 1
                 /\ Front(trace[i].after.maps) = trace[i].before.maps

\* every step has run and written its field, on a context that held bands
\* before the product was resolved
C9_Witness ==
    \E i \in DOMAIN trace :
        /\ trace[i].step = "ResolveProduct"
        /\ trace[i].error = NoError
        /\ DOMAIN trace[i].before.bands # {}
        /\ trace[i].after.bands = trace[i].before.bands

(***************************************************************************)
(* The index calculator on its own (specification SpecIndex): one call of  *)
(* analyse_scene on inputs drawn from bounded sets, or one formula         *)
(* evaluated on the samples of one pixel.                                  *)
(***************************************************************************)
\* the longest list of requested index names
MaxRequestLen == 2

NamePool == {"ndvi", "ndwi", "evi", "ci_rededge", "bogus", "nope"}

RequestChoices ==
    {None, Some(<<>>)} \cup {Some(q) : q \in SeqsUpTo(NamePool, MaxRequestLen)}

BandPathsOf(aliases) == [a \in aliases |-> <<Root, <<"bands">>, Tif(a)>>]

BandSetChoices ==
    { BandPathsOf({"nir", "red"}),
      BandPathsOf({"nir", "red", "swir1"}),
      BandPathsOf({"nir", "red", "blue", "rededge4"}),
      BandPathsOf({"red", "swir1"}),
      BandPathsOf(Range(BandOrder)) }

\* grids of band files: 10 m, 20 m, 10 m shifted, and 10 m in another UTM zone
\* with the same transform and size
GridChoices ==
    {Grid(<<10, 0, 0, 0, -10, 40>>, 32722, 4, 4),
     Grid(<<20, 0, 0, 0, -20, 40>>, 32722, 2, 2),
     Grid(<<10, 0, 5, 0, -10, 40>>, 32722, 4, 4),
     Grid(<<10, 0, 0, 0, -10, 40>>, 32723, 4, 4)}

\* the nir file on one grid, every other band file on another or the same
BandGridChoices ==
    {[a \in ExtractorAliases |-> IF a = "nir" THEN gn ELSE go] :
        gn \in {Grid(<<10, 0, 0, 0, -10, 40>>, 32722, 4, 4),
                Grid(<<20, 0, 0, 0, -20, 40>>, 32722, 2, 2)},
        go \in GridChoices}

SampleChoices ==
    {NaN, PInf, NInf, Zero, One, Fin(-1, 1), Fin(1, 2), Fin(1, 10)}

OutputDir == <<Root, <<"out">>, <<"indices">>>>

InitIndex ==
    /\ \/ ic = [state |-> "idle"]
       \/ \E bp \in BandSetChoices, q \in RequestChoices, f \in 0..MaxIoFail,
             g \in BandGridChoices :
             ic = [state |-> "ready", band_paths |-> bp, output_dir |-> OutputDir,
                   indices |-> q, failAt |-> f, grids |-> g]
    /\ px = [state |-> "none"]

\* IndexCalculator.analyse_scene, from call to return or raise
AnalyseScene ==
    /\ ic.state = "ready"
    /\ LET r == analyse_scene(ic.band_paths, ic.output_dir, ic.indices, ic.failAt)
       IN ic' = [state |-> "done", band_paths |-> ic.band_paths,
                 output_dir |-> ic.output_dir, indices |-> ic.indices,
                 grids |-> ic.grids,
                 result |-> r,
                 band_arrays |-> IF r.error = NoError
                                 THEN BandArrays(ic.grids, ic.indices) ELSE <<>>,
                 written_on |-> IF r.error = NoError
                                THEN [n \in DOMAIN r.outputs |-> OutputGrid(ic.grids)]
                                ELSE <<>>]
    /\ UNCHANGED px
    /\ UNCHANGED <<pipeVars, mapVars, extractVars>>

\* spec.func(*arrays) at one pixel
EvalFormula ==
    /\ ic.state = "idle"
    /\ px.state = "none"
    /\ \E name \in IndexNames :
         \E args \in [DOMAIN SpecBands(name) -> SampleChoices] :
            px' = [state |-> "done", name |-> name, args |-> args,
                   value |-> SpecFunc(name, args)]
    /\ UNCHANGED ic
    /\ UNCHANGED <<pipeVars, mapVars, extractVars>>

NextIndex == AnalyseScene \/ EvalFormula


Init == InitPipe /\ IdleIndex /\ IdleMap /\ IdleExtract
Next == NextPipe
Spec == Init /\ [][Next]_vars

InitIdx == IdlePipe /\ InitIndex /\ IdleMap /\ IdleExtract
SpecIndex == InitIdx /\ [][NextIndex]_vars

(***************************************************************************)
(* SafeExtractor.extract called again and again on one product and one     *)
(* destination directory, while time passes and the product may change     *)
(* (specification SpecExtract)                                             *)
(***************************************************************************)
\* the most calls of extract and the latest time that are followed
MaxExtracts == 2
MaxClock == 4

Destination == Append(DATA_PROCESSED_DIR, <<"S2A">>)

\* the band files of a directory product were last modified at time 1
SourceChoices ==
    {[kind |-> k, bad |-> b, located |-> l, jp2 |-> [a \in l |-> 1]] :
        k \in {"dir", "zip"}, b \in BOOLEAN, l \in LocatedChoices}

\* the destination before the first call: empty, or with a nir.tif older than
\* the band files and a red.tif as recent as they are
TifChoices ==
    {[a \in ExtractorAliases |-> None],
     [a \in ExtractorAliases |->
        IF a = "nir" THEN Some(0) ELSE IF a = "red" THEN Some(1) ELSE None]}

InitExtract ==
    /\ IdlePipe
    /\ IdleIndex
    /\ IdleMap
    /\ \E src \in SourceChoices, tif \in TifChoices :
          ex = [src |-> src, tif |-> tif, clock |-> 2, n |-> 0, changed |-> FALSE,
                last |-> None]

\* SafeExtractor.extract(safe_archive, destination), from call to return or raise
ExtractCall ==
    /\ ex.n < MaxExtracts
    /\ LET r == SafeExtractor_extract(ex.src, Destination, ex.tif, ex.clock)
       IN ex' = [ex EXCEPT
                   !.tif = r.tif,
                   !.n = ex.n + 1,
                   !.changed = FALSE,
                   !.last = Some([error |-> r.error, extracted |-> r.extracted,
                                  rewritten |-> r.rewritten, before |-> ex.tif,
                                  now |-> ex.clock, src |-> ex.src,
                                  again |-> ex.last # None /\ ~ex.changed])]
    /\ UNCHANGED <<pipeVars, indexVars, mapVars>>

\* time passes
Tick ==
    /\ ex.clock < MaxClock
    /\ ex' = [ex EXCEPT !.clock = ex.clock + 1]
    /\ UNCHANGED <<pipeVars, indexVars, mapVars>>

\* a band file of a directory product is modified; a .zip product is replaced
TouchSource ==
    /\ ~ex.changed
    /\ \/ /\ ex.src.kind = "dir"
          /\ \E a \in ex.src.located \cap {"nir", "red"} :
                ex' = [ex EXCEPT !.src.jp2[a] = ex.clock, !.changed = TRUE]
       \/ /\ ex.src.kind = "zip"
          /\ ex' = [ex EXCEPT !.changed = TRUE]
    /\ UNCHANGED <<pipeVars, indexVars, mapVars>>

NextExtract == ExtractCall \/ Tick \/ TouchSource

SpecExtract == InitExtract /\ [][NextExtract]_vars

(***************************************************************************)
(* Single calls of the functions of the toolkit (specification SpecFun):   *)
(* px holds the call, then the call and what it returned or raised         *)
(***************************************************************************)
FunCall(name, args) == [state |-> "call", name |-> name, args |-> args]
FunDone(call, value) ==
    [state |-> "done", name |-> call.name, args |-> call.args, value |-> value]

\* what the server would answer to each request, one more than download may make
ServerChoices == [1..MaxRequests + 1 -> ResponseKinds]

DownloadCalls ==
    {FunCall("download", <<The(pr), DATA_RAW_DIR, rs>>) :
        pr \in ProductChoices \ {None}, rs \in ServerChoices}

\* the most overlay documents handed to _compute_clip_bounds
MaxOverlays == 2

\* geometry bounds: two polygons, a point, a vertical segment
BoxPool == {Box(1, 1, 2, 2), Box(3, 1, 4, 3), Box(1, 1, 1, 1), Box(0, 2, 0, 3)}

OverlayBoundsChoices ==
    {<<>>} \cup SeqsUpTo({None} \cup {Some(b) : b \in BoxPool}, MaxOverlays)

PaddingChoices == {Zero, Fin(3, 10), One, Fin(2, 1)}

ClipBoundsCalls ==
    {FunCall("_compute_clip_bounds", <<ob, pf>>) :
        ob \in OverlayBoundsChoices, pf \in PaddingChoices}

(***************************************************************************)
(* core/engine/exporters/csv_exporter.py                                   *)
(***************************************************************************)
\* the most rows and columns of an exported array
MaxRows == 2
MaxCols == 2

\* an affine transform is <<a, b, c, d, e, f>>: x = a*col + b*row + c,
\* y = d*col + e*row + f
TransformChoices ==
    {<<Fin(10, 1), Zero, Fin(100, 1), Zero, Fin(-10, 1), Fin(200, 1)>>,
     <<Fin(2, 1), One, Zero, One, Fin(-2, 1), Fin(5, 1)>>}

\* rasterio.transform.xy(transform, rows, cols, offset="center") for one
\* pixel; row and col count from 0
PixelXY(transform, row, col, off) ==
    LET c == FAdd(Fin(col, 1), off)
        r == FAdd(Fin(row, 1), off)
    IN <<FAdd(FAdd(FMul(transform[1], c), FMul(transform[2], r)), transform[3]),
         FAdd(FAdd(FMul(transform[4], c), FMul(transform[5], r)), transform[6])>>

\* _coordinates with the corner of each pixel instead of its centre
CoordinatesUpperLeft(transform, row, columns) ==
    [i \in DOMAIN columns |-> PixelXY(transform, row, columns[i], Zero)]

\* CSVExporter._coordinates: the (lon, lat) of each listed column of one row
_coordinates(transform, row, columns) ==
    [i \in DOMAIN columns |-> PixelXY(transform, row, columns[i], Fin(1, 2))]

\* np.nonzero(np.isfinite(row))[0]: the columns (from 0) of the finite samples
RECURSIVE FiniteCols(_, _)
FiniteCols(row, from) ==
    IF from > Len(row) THEN <<>>
    ELSE (IF IsFinite(row[from]) THEN <<from - 1>> ELSE <<>>) \o FiniteCols(row, from + 1)

\* the data rows written for the rows of the array from row_idx (from 0) on
RECURSIVE ExportRows(_, _, _)
ExportRows(data, transform, row_idx) ==
    IF row_idx >= Len(data) THEN <<>>
    ELSE LET row == data[row_idx + 1]
             cols == FiniteCols(row, 1)
             pts == _coordinates(transform, row_idx, cols)
         IN [i \in DOMAIN cols |-> <<pts[i][1], pts[i][2], row[cols[i] + 1]>>]
            \o ExportRows(data, transform, row_idx + 1)

\* CSVExporter.export: the rows of the file written at output_path
export(data, transform, fieldnames) ==
    <<fieldnames>> \o ExportRows(data, transform, 0)

FieldNames == <<"longitude", "latitude", "value">>

CellChoices == {NaN, Fin(1, 2)}

\* every array up to MaxRows x MaxCols of NaN and finite cells, and arrays
\* that hold infinities
DataChoices ==
    UNION {[1..r -> [1..c -> CellChoices]] : r \in 0..MaxRows, c \in 1..MaxCols}
    \cup {<<<<NaN, Fin(1, 2)>>, <<PInf, Fin(1, 2)>>>>,
          <<<<NInf, Fin(1, 2)>>>>, <<<<Fin(1, 2), NInf>>>>,
          <<<<PInf>>, <<NInf>>>>, <<<<Fin(1, 2), PInf>>, <<NInf, NaN>>>>}

CsvCalls ==
    {FunCall("export", <<d, t, FieldNames>>) : d \in DataChoices, t \in TransformChoices}

(***************************************************************************)
(* core/domain/entities.py: AreaOfInterest                                 *)
(***************************************************************************)
\* the most positions in a ring of a geometry
MaxRingLen == 3

\* a JSON number as Python holds it: an int or a float (here always a whole one)
PyInt(v) == [t |-> "int", v |-> v]
PyFloat(v) == [t |-> "float", v |-> v]

\* Python ==  on numbers: 1 == 1.0
PyNumEq(a, b) == a.v = b.v

\* Python == on two positions (lists of numbers)
PyListEq(pa, pb) ==
    /\ Len(pa) = Len(pb)
    /\ \A i \in DOMAIN pa : PyNumEq(pa[i], pb[i])

\* f"{x}": str() of an int or of a float
NumText(x) == IF x.t = "int" THEN ToString(x.v) ELSE ToString(x.v) \o ".0"

\* f"{lon} {lat}" of the positions of a ring; a text is kept as its pieces
RingText(ring) == [j \in DOMAIN ring |-> <<NumText(ring[j][1]), NumText(ring[j][2])>>]

WktResult(err, wkt, geometry) == [error |-> err, wkt |-> wkt, geometry |-> geometry]

\* what stops _polygon_to_wkt on one ring: the ring is empty, or "lon, lat"
\* cannot unpack one of its positions
RingError(ring) ==
    IF ring = <<>> THEN Err("empty_ring", {})
    ELSE IF \E j \in DOMAIN ring : Len(ring[j]) # 2 THEN Err("unpack", {})
    ELSE NoError

\* the error of the first entry that has one
FirstError(errors) ==
    IF \A i \in DOMAIN errors : errors[i] = NoError THEN NoError
    ELSE errors[CHOOSE i \in DOMAIN errors :
                    /\ errors[i] # NoError
                    /\ \A j \in 1..(i - 1) : errors[j] = NoError]

\* _polygon_to_wkt that emits every ring as it is stored
PolygonToWktAsStored(coordinates) ==
    LET stopped == FirstError([i \in DOMAIN coordinates |-> RingError(coordinates[i])])
    IN IF stopped # NoError
       THEN [error |-> stopped, rings |-> <<>>]
       ELSE [error |-> NoError,
             rings |-> [i \in DOMAIN coordinates |-> RingText(coordinates[i])]]

\* AreaOfInterest._polygon_to_wkt: "POLYGON (" + the rings + ")"
_polygon_to_wkt(coordinates) ==
    LET stopped == FirstError([i \in DOMAIN coordinates |-> RingError(coordinates[i])])
    IN IF stopped # NoError
       THEN [error |-> stopped, rings |-> <<>>]
       ELSE [error |-> NoError,
             rings |-> [i \in DOMAIN coordinates |->
                          LET ring == coordinates[i]
                          IN IF ~PyListEq(ring[1], ring[Len(ring)])
                             THEN RingText(Append(ring, ring[1]))
                             ELSE RingText(ring)]]

\* _extract_geometry that takes the last feature of a collection
ExtractGeometryLastFeature(geometry) ==
    IF geometry.type = "FeatureCollection"
    THEN IF geometry.features = <<>>
         THEN [error |-> Err("empty_feature_collection", {}), geometry |-> <<>>]
         ELSE [error |-> NoError,
               geometry |-> geometry.features[Len(geometry.features)].geometry]
    ELSE IF geometry.type = "Feature"
         THEN [error |-> NoError, geometry |-> geometry.geometry]
    ELSE [error |-> NoError, geometry |-> geometry]

\* AreaOfInterest._extract_geometry
_extract_geometry(geometry) ==
    IF geometry.type = "FeatureCollection"
    THEN IF geometry.features = <<>>
         THEN [error |-> Err("empty_feature_collection", {}), geometry |-> <<>>]
         ELSE [error |-> NoError, geometry |-> geometry.features[1].geometry]
    ELSE IF geometry.type = "Feature"
         THEN [error |-> NoError, geometry |-> geometry.geometry]
    ELSE [error |-> NoError, geometry |-> geometry]

\* AreaOfInterest.to_wkt; the result carries the stored geometry after the call
to_wkt(stored) ==
    LET x == _extract_geometry(stored)
        geometry == x.geometry
        polygons == [i \in DOMAIN geometry.coordinates |->
                        _polygon_to_wkt(geometry.coordinates[i])]
        one == _polygon_to_wkt(geometry.coordinates)
    IN IF x.error # NoError THEN WktResult(x.error, <<>>, stored)
       ELSE IF geometry.type = "Polygon"
            THEN IF one.error # NoError THEN WktResult(one.error, <<>>, stored)
                 ELSE WktResult(NoError, [tag |-> "POLYGON", polygons |-> <<one.rings>>],
                                stored)
       ELSE IF geometry.type = "MultiPolygon"
            THEN IF FirstError([i \in DOMAIN polygons |-> polygons[i].error]) # NoError
                 THEN WktResult(FirstError([i \in DOMAIN polygons |-> polygons[i].error]),
                                <<>>, stored)
                 ELSE WktResult(NoError,
                                [tag |-> "MULTIPOLYGON",
                                 polygons |-> [i \in DOMAIN polygons |-> polygons[i].rings]],
                                stored)
       ELSE WktResult(Err("unsupported_geometry", {geometry.type}), <<>>, stored)

\* positions: (0, 0), (1, 0), (1.0, 0), (1, 1), and (0, 0) with an altitude
PositionPool ==
    {<<PyInt(0), PyInt(0)>>, <<PyInt(1), PyInt(0)>>, <<PyFloat(1), PyInt(0)>>,
     <<PyInt(1), PyInt(1)>>, <<PyInt(0), PyInt(0), PyInt(5)>>}

RingChoices == {<<>>} \cup SeqsUpTo(PositionPool, MaxRingLen)

\* polygons of one ring, and of an outer ring and a hole
PolygonChoices ==
    {<<>>} \cup {<<r>> : r \in RingChoices}
           \cup {<<r, h>> : r \in RingChoices, h \in SeqsUpTo({<<PyInt(1), PyInt(0)>>}, 2)}

\* Polygon documents: bare, and as the first feature of a collection
PolygonDocuments ==
    LET polygons == {[type |-> "Polygon", coordinates |-> pg] : pg \in PolygonChoices}
        point == [type |-> "Point", coordinates |-> <<PyInt(0), PyInt(0)>>]
    IN polygons
       \cup {[type |-> "FeatureCollection",
               features |-> <<[type |-> "Feature", geometry |-> g],
                              [type |-> "Feature", geometry |-> point]>>] :
                g \in {h \in polygons : Len(h.coordinates) < 2}}

\* MultiPolygon documents: bare, and as the geometry of a feature
MultiPolygonDocuments ==
    LET multi == {[type |-> "MultiPolygon", coordinates |-> <<<<r>>>>] : r \in RingChoices}
                 \cup {[type |-> "MultiPolygon", coordinates |-> <<<<r>>, <<h>>>>] :
                          r \in RingChoices, h \in SeqsUpTo({<<PyInt(1), PyInt(1)>>}, 2)}
    IN multi \cup {[type |-> "Feature", geometry |-> g] : g \in multi}

\* a point, bare and in a feature, a collection without features, and a
\* collection whose first feature is a point and whose second is a polygon
OtherDocuments ==
    LET point == [type |-> "Point", coordinates |-> <<PyInt(0), PyInt(0)>>]
        square == [type |-> "Polygon",
                   coordinates |-> <<<<<<PyInt(0), PyInt(0)>>, <<PyInt(1), PyInt(0)>>,
                                       <<PyInt(1), PyInt(1)>>>>>>]
    IN {point,
        [type |-> "Feature", geometry |-> point],
        [type |-> "FeatureCollection", features |-> <<>>],
        [type |-> "FeatureCollection",
         features |-> <<[type |-> "Feature", geometry |-> point],
                        [type |-> "Feature", geometry |-> square]>>]}

\* the calls of to_wkt on a document of the given set, as json.load returns it
WktCalls(documents) == {FunCall("to_wkt", <<g>>) : g \in documents}

(***************************************************************************)
(* core/engine/renderers/multi_index_map.py: _mask_with_geojson            *)
(***************************************************************************)
\* the shapes _mask_with_geojson collects, document by document; an overlay
\* document is kept as the list of the geometries iterate_geometries yields
\* for it, each one a rectangle
RECURSIVE Shapes(_)
Shapes(overlay_geojsons) ==
    IF overlay_geojsons = <<>> THEN <<>>
    ELSE overlay_geojsons[1].geometries \o Shapes(Tail(overlay_geojsons))

\* rasterio.features.rasterize(shapes, out_shape, transform, fill=0,
\* all_touched=False): 1 at the pixels whose centre lies in a shape
rasterize(shapes, data, transform) ==
    [r \in DOMAIN data |->
        [c \in DOMAIN data[r] |->
            LET xy == PixelXY(transform, r - 1, c - 1, Fin(1, 2))
            IN IF \E i \in DOMAIN shapes :
                     /\ FLt(shapes[i][1], xy[1]) /\ FLt(xy[1], shapes[i][3])
                     /\ FLt(shapes[i][2], xy[2]) /\ FLt(xy[2], shapes[i][4])
               THEN 1 ELSE 0]]

\* _mask_with_geojson that rasterizes even when there is no shape
MaskWithoutShapesCheck(data, transform, overlay_geojsons) ==
    LET mask == rasterize(Shapes(overlay_geojsons), data, transform)
    IN [r \in DOMAIN data |->
          [c \in DOMAIN data[r] |-> IF mask[r][c] = 1 THEN data[r][c] ELSE NaN]]

\* MultiIndexMapRenderer._mask_with_geojson
_mask_with_geojson(data, transform, overlay_geojsons) ==
    LET shapes == Shapes(overlay_geojsons)
        mask == rasterize(shapes, data, transform)
    IN IF shapes = <<>> THEN data
       ELSE [r \in DOMAIN data |->
               [c \in DOMAIN data[r] |-> IF mask[r][c] = 1 THEN data[r][c] ELSE NaN]]

\* overlay documents over MaskTransform: one covering the first column, one
\* covering the top right pixel, one off the grid, one without a geometry
FirstColumn == [geometries |-> <<Box(100, 150, 110, 200)>>]
TopRight == [geometries |-> <<Box(110, 190, 120, 200)>>]
OffGrid == [geometries |-> <<Box(0, 0, 1, 1)>>]
NoGeometry == [geometries |-> <<>>]

OverlayGeojsonChoices ==
    {<<>>, <<NoGeometry>>, <<FirstColumn>>, <<OffGrid>>, <<FirstColumn, TopRight>>,
     <<NoGeometry, TopRight>>, <<NoGeometry, NoGeometry>>}

\* rectangular arrays of at least one row
RasterChoices ==
    UNION {[1..r -> [1..c -> CellChoices]] : r \in 1..MaxRows, c \in 1..MaxCols}

MaskTransform == <<Fin(10, 1), Zero, Fin(100, 1), Zero, Fin(-10, 1), Fin(200, 1)>>

\* the arrays a call has returned so far: the mask is applied to the array
\* and then again to what it returned
MaskCalls ==
    {[state |-> "call", name |-> "_mask_with_geojson", args |-> <<d, MaskTransform, o>>,
      value |-> <<>>] : d \in RasterChoices, o \in OverlayGeojsonChoices}

(***************************************************************************)
(* core/engine/renderers/multi_index_map.py: render as one call            *)
(***************************************************************************)
\* options with every combination of sharpen, clip and an upsample factor
\* below, at and above 1
RenderOptionChoices ==
    [enable_panel : BOOLEAN, clip : BOOLEAN, padding_factor : {Fin(3, 10)},
     sharpen : BOOLEAN, upsample : {Fin(1, 2), One, Fin(2, 1)}]

RenderCalls ==
    {FunCall("render", <<paths, options, overlays,
                         [st \in LayerPool |-> Box(0, 0, 4, 4)], bad>>) :
        paths \in IndexPathChoices, options \in RenderOptionChoices,
        overlays \in {<<>>, <<Some(Box(1, 1, 2, 2))>>}, bad \in 0..MaxLayers}

InitFun ==
    /\ IdlePipe
    /\ IdleMap
    /\ IdleExtract
    /\ ic = <<>>
    /\ \/ px \in ClipBoundsCalls \cup CsvCalls \cup DownloadCalls
       \/ px \in WktCalls(PolygonDocuments)
       \/ px \in WktCalls(MultiPolygonDocuments)
       \/ px \in WktCalls(OtherDocuments)
       \/ px \in MaskCalls
       \/ px \in RenderCalls

\* MultiIndexMapRenderer._compute_clip_bounds (TrueColorRenderer has the same)
ComputeClipBounds ==
    /\ px.state = "call"
    /\ px.name = "_compute_clip_bounds"
    /\ px' = FunDone(px, _compute_clip_bounds(px.args[1], px.args[2]))
    /\ UNCHANGED ic
    /\ UNCHANGED <<pipeVars, mapVars, extractVars>>

\* CSVExporter.export
ExportCsv ==
    /\ px.state = "call"
    /\ px.name = "export"
    /\ px' = FunDone(px, export(px.args[1], px.args[2], px.args[3]))
    /\ UNCHANGED ic
    /\ UNCHANGED <<pipeVars, mapVars, extractVars>>

\* CopernicusClient.download
Download ==
    /\ px.state = "call"
    /\ px.name = "download"
    /\ px' = FunDone(px, download(px.args[1], px.args[2], px.args[3]))
    /\ UNCHANGED ic
    /\ UNCHANGED <<pipeVars, mapVars, extractVars>>

\* AreaOfInterest.to_wkt
ToWkt ==
    /\ px.state = "call"
    /\ px.name = "to_wkt"
    /\ px' = FunDone(px, to_wkt(px.args[1]))
    /\ UNCHANGED ic
    /\ UNCHANGED <<pipeVars, mapVars, extractVars>>

\* _mask_with_geojson on the array, and once more on the array it returned,
\* with the same transform and overlays
MaskWithGeojson ==
    /\ px.name = "_mask_with_geojson"
    /\ Len(px.value) < 2
    /\ LET data == IF px.value = <<>> THEN px.args[1] ELSE Last(px.value)
       IN px' = [px EXCEPT !.state = "done",
                           !.value = Append(@, _mask_with_geojson(data, px.args[2],
                                                                  px.args[3]))]
    /\ UNCHANGED ic
    /\ UNCHANGED <<pipeVars, mapVars, extractVars>>

\* MultiIndexMapRenderer.render, from call to return or raise
RenderCall ==
    /\ px.state = "call"
    /\ px.name = "render"
    /\ px' = FunDone(px, render(px.args[1], px.args[2], px.args[3], px.args[4],
                                px.args[5]))
    /\ UNCHANGED ic
    /\ UNCHANGED <<pipeVars, mapVars, extractVars>>

NextFun ==
    \/ ComputeClipBounds
    \/ ExportCsv
    \/ Download
    \/ ToWkt
    \/ MaskWithGeojson
    \/ RenderCall

SpecFun == InitFun /\ [][NextFun]_vars

(***************************************************************************)
(* Claims about the index calculator (specification SpecIndex)             *)
(***************************************************************************)
\* the denominator of each registered formula, from the samples of its bands
Denominator(name, a) ==
    CASE name \in {"ndvi", "ndwi", "ndmi", "ndre", "ndre1", "ndre2", "ndre3", "ndre4"} ->
            FAdd(a[1], a[2])
      [] name = "msi" -> a[1]
      [] name = "evi" ->
            FAdd(FSub(FAdd(a[1], FMul(Fin(6, 1), a[2])), FMul(Fin(15, 2), a[3])), One)
      [] name = "ci_rededge" -> a[2]
      [] name = "sipi" -> FSub(a[1], a[2])

\* C4: for every registered formula, a pixel whose denominator is exactly 0
\* gets the index value 0 (never NaN, never infinite).
C4_ZeroDenominatorGivesZero ==
    (px.state = "done" /\ IsZero(Denominator(px.name, px.args))) => px.value = Zero

\* C4, restricted to the formulas that go through _compute_index
C4_RatioHelperGivesZero ==
    (px.state = "done" /\ px.name # "ci_rededge" /\ IsZero(Denominator(px.name, px.args)))
        => px.value = Zero

RequestedNames(indices) == IF indices = None THEN IndexNames ELSE Range(The(indices))

\* C5: analyse_scene fails with the unknown-index error whenever a requested
\* name is not registered, and has then done no file operation at all (no
\* raster opened, no directory created, no file written).
C5_UnknownIndexBeforeIO ==
    (ic.state = "done" /\ ~(RequestedNames(ic.indices) \subseteq IndexNames)) =>
        /\ ic.result.error.kind = "unsupported_indices"
        /\ ic.result.error.names = RequestedNames(ic.indices) \ IndexNames
        /\ ic.result.io = <<>>
        /\ DOMAIN ic.result.outputs = {}

\* "bogus" requested against a band set that holds every band it could need
C5_Witness ==
    /\ ic.state = "done"
    /\ "bogus" \in RequestedNames(ic.indices)
    /\ "ndvi" \in RequestedNames(ic.indices)
    /\ {"nir", "red"} \subseteq DOMAIN ic.band_paths
    /\ ic.result.error.kind = "unsupported_indices"

RequiredUnion(indices) == UNION {Range(SpecBands(n)) : n \in RequestedNames(indices)}

\* C6: for a non-empty request of registered names, analyse_scene fails with
\* the missing-band error exactly when some band required by a requested index
\* is not an alias of the band set; the error then names exactly the missing
\* aliases, and no file operation has been done.
C6_MissingBandError ==
    (/\ ic.state = "done"
     /\ RequestedNames(ic.indices) # {}
     /\ RequestedNames(ic.indices) \subseteq IndexNames) =>
        LET missing == RequiredUnion(ic.indices) \ DOMAIN ic.band_paths
        IN /\ (ic.result.error.kind = "missing_bands") <=> (missing # {})
           /\ missing # {} =>
                 /\ ic.result.error.names = missing
                 /\ ic.result.io = <<>>
                 /\ DOMAIN ic.result.outputs = {}

\* ndwi requested from a band set without swir1: the error names swir1 alone
C6_Witness ==
    /\ ic.state = "done"
    /\ ic.indices = Some(<<"ndwi">>)
    /\ DOMAIN ic.band_paths = {"nir", "red"}
    /\ ic.result.error = Err("missing_bands", {"swir1"})

WriteOps(io) == {i \in DOMAIN io : io[i].op = "write"}

\* C7: when analyse_scene returns, the keys of the returned dict are the
\* distinct requested names (all registered names when no list is given), each
\* name maps to <output_dir>/<name>.tif, that file has been written, and one
\* file has been written per distinct name.
C7_OneRasterPerIndex ==
    (ic.state = "done" /\ ic.result.error = NoError) =>
        /\ DOMAIN ic.result.outputs = RequestedNames(ic.indices)
        /\ \A n \in DOMAIN ic.result.outputs :
              /\ ic.result.outputs[n] = Append(ic.output_dir, <<n, ".tif">>)
              /\ \E i \in WriteOps(ic.result.io) : ic.result.io[i].path = ic.result.outputs[n]
        /\ Cardinality(WriteOps(ic.result.io)) = Cardinality(RequestedNames(ic.indices))

\* a request that repeats a name succeeds with one entry for it
C7_Witness ==
    /\ ic.state = "done"
    /\ ic.result.error = NoError
    /\ ic.indices = Some(<<"ndwi", "ndwi">>)
    /\ DOMAIN ic.result.outputs = {"ndwi"}

\* analyse_scene returned
SceneDone == ic # <<>> /\ ic.state = "done" /\ ic.result.error = NoError

\* two grids differ in transform, CRS, height or width
GridsDiffer(g, h) ==
    \/ g.transform # h.transform
    \/ g.crs # h.crs
    \/ g.height # h.height
    \/ g.width # h.width

\* C19: in analyse_scene the nir file is opened first and its grid is the
\* reference: after loading, every required band lies on the grid of the nir
\* file (same transform, CRS, height and width), a band being resampled exactly
\* when its own grid differs from that of nir in any of these; every output
\* is written on the grid of the nir file.
C19_NirIsReferenceGrid ==
    SceneDone =>
        /\ ic.result.io[1] = OpOpen(ic.band_paths["nir"])
        /\ \A b \in DOMAIN ic.band_arrays :
              /\ ic.band_arrays[b].grid = ic.grids["nir"]
              /\ ic.band_arrays[b].resampled <=>
                    (b # "nir" /\ GridsDiffer(ic.grids[b], ic.grids["nir"]))
        /\ \A n \in DOMAIN ic.written_on : ic.written_on[n] = ic.grids["nir"]

\* the same, for band files that all carry the CRS of the nir file
C19_ReferenceGridWithinOneCrs ==
    (SceneDone /\ \A b \in DOMAIN ic.band_arrays : ic.grids[b].crs = ic.grids["nir"].crs) =>
        /\ ic.result.io[1] = OpOpen(ic.band_paths["nir"])
        /\ \A b \in DOMAIN ic.band_arrays :
              /\ ic.band_arrays[b].grid = ic.grids["nir"]
              /\ ic.band_arrays[b].resampled <=>
                    (b # "nir" /\ GridsDiffer(ic.grids[b], ic.grids["nir"]))
        /\ \A n \in DOMAIN ic.written_on : ic.written_on[n] = ic.grids["nir"]

(***************************************************************************)
(* Claims about the multi-index map (specification SpecMap)                *)
(***************************************************************************)
Loaded == doc.state = "rendered" /\ doc.written /\ page.state = "ready" /\ page.clicks = 0

\* C10 as stated: in every document render writes, with the layer control and
\* with the selector panel alike, once the map has loaded the index layer at
\* position 0 is on the map and no other index layer is.
C10_FirstLayerVisibleOnLoad ==
    Loaded => page.onMap = {FeatureId(0)}

\* C10 as amended: every document render writes marks the layer at position 0,
\* and no other, as shown; with the layer control that layer alone is on the
\* map once the map has loaded; with the selector panel the panel script
\* selects the base-map entry on load, so no index layer is on the map and the
\* base-map entry is the active one.
C10_FirstLayerShownUnlessPanel ==
    (doc.state = "rendered" /\ doc.written) =>
        /\ \A i \in DOMAIN doc.layers : doc.layers[i].show <=> (i = 1)
        /\ (page.state = "scripted") => page.onMap = {FeatureId(0)}
        /\ Loaded =>
              IF doc.panel
              THEN page.onMap = {} /\ page.active = {BaseId}
              ELSE page.onMap = {FeatureId(0)}

\* a document with a panel and several layers has loaded
C10_Witness ==
    /\ Loaded
    /\ doc.panel
    /\ Len(doc.layers) > 1
    /\ page.onMap = {}

\* the index layers of the document, by their element names
OverlayIds == {doc.layers[i].layer_id : i \in DOMAIN doc.layers}

\* C11: with the selector panel, once the map is ready and after any clicks on
\* panel entries, exactly one entry is active and it is the one selected last:
\* if that is an index entry its layer is on the map and no other index layer
\* is, if it is the base-map entry no index layer is on the map; the list item
\* of the last selection, and no other, carries the active marker.
C11_ExactlyOneActive ==
    (doc.state = "rendered" /\ doc.written /\ doc.panel /\ page.state = "ready") =>
        /\ page.selected # None
        /\ page.active = page.selected
        /\ Cardinality(page.active) = 1
        /\ page.onMap \cap OverlayIds = page.selected \ {BaseId}

\* an index entry was selected after another index entry
C11_Witness ==
    /\ doc.state = "rendered" /\ doc.panel /\ page.state = "ready"
    /\ page.clicks = 2
    /\ Len(doc.layers) > 1
    /\ page.selected = {FeatureId(1)}
    /\ page.onMap = {FeatureId(1)}

\* C12 as stated: in every document render writes, every index layer was
\* loaded with the same clip window and every image overlay is placed at the
\* same geographic bounds.
C12_LayersShareOneFrame ==
    (doc.state = "rendered" /\ doc.written) =>
        \A i, j \in DOMAIN doc.layers :
            /\ doc.layers[i].window = doc.layers[j].window
            /\ doc.layers[i].bounds = doc.layers[j].bounds

\* C12 as amended: every index layer is loaded with the same clip window, the
\* one box computed from the overlay geometries or none at all; when there is
\* such a box every image overlay is placed at exactly that box, and when
\* there is none each image overlay is placed at the bounds of its own raster.
C12_LayersShareClipBox ==
    (doc.state = "rendered" /\ doc.written) =>
        \A i \in DOMAIN doc.layers :
            /\ doc.layers[i].window = doc.clip_bounds
            /\ doc.clip_bounds # None => doc.layers[i].bounds = The(doc.clip_bounds)
            /\ doc.clip_bounds = None => doc.layers[i].bounds = doc.layers[i].loaded

\* a document of two layers whose rasters differ in extent, clipped to a box
\* that reaches beyond one of them
C12_Witness ==
    /\ doc.state = "rendered" /\ doc.written
    /\ doc.clip_bounds # None
    /\ \E i, j \in DOMAIN doc.layers :
          doc.layers[i].stem = "ndvi" /\ doc.layers[j].stem = "evi"
    /\ The(doc.clip_bounds)[3] = Fin(89, 20)

(***************************************************************************)
(* Claims about single calls (specification SpecFun)                       *)
(***************************************************************************)
Returned(name) == px.state = "done" /\ px.name = name

\* the geometry bounds handed to the call, without the missing ones
GivenBoxes == {The(px.args[1][i]) : i \in {j \in DOMAIN px.args[1] : px.args[1][j] # None}}

\* the least and the greatest of a non-empty set of finite floats
Least(S) == CHOOSE x \in S : \A y \in S : ~FLt(y, x)
Greatest(S) == CHOOSE x \in S : \A y \in S : ~FLt(x, y)

\* the union bounding box of the given boxes
UnionBox ==
    <<Least({b[1] : b \in GivenBoxes}), Least({b[2] : b \in GivenBoxes}),
      Greatest({b[3] : b \in GivenBoxes}), Greatest({b[4] : b \in GivenBoxes})>>

\* half the padding factor times the extent of the union box along each axis
HalfPadLon == FDiv(FMul(px.args[2], FSub(UnionBox[3], UnionBox[1])), Fin(2, 1))
HalfPadLat == FDiv(FMul(px.args[2], FSub(UnionBox[4], UnionBox[2])), Fin(2, 1))

ExpandedByHalfPad(box) ==
    /\ box[1] = FSub(UnionBox[1], HalfPadLon)
    /\ box[3] = FAdd(UnionBox[3], HalfPadLon)
    /\ box[2] = FSub(UnionBox[2], HalfPadLat)
    /\ box[4] = FAdd(UnionBox[4], HalfPadLat)

\* box a contains box b
Contains(a, b) ==
    /\ ~FLt(b[1], a[1]) /\ ~FLt(b[2], a[2])
    /\ ~FLt(a[3], b[3]) /\ ~FLt(a[4], b[4])

\* C13 as stated: for every non-empty set of geometry bounding boxes,
\* _compute_clip_bounds with padding factor 0 returns exactly their union
\* box, and with a padding factor p > 0 it returns a box that strictly
\* contains the union box (contains it and differs from it) and is the union
\* box expanded by p/2 * width on each longitude side and p/2 * height on each
\* latitude side.
C13_PaddedBoxStrictlyContains ==
    (Returned("_compute_clip_bounds") /\ GivenBoxes # {}) =>
        /\ px.value # None
        /\ px.args[2] = Zero => The(px.value) = UnionBox
        /\ FLt(Zero, px.args[2]) =>
              /\ Contains(The(px.value), UnionBox)
              /\ The(px.value) # UnionBox
              /\ ExpandedByHalfPad(The(px.value))

\* C13 as amended: with padding factor 0 the result is the union box; with
\* p > 0 it is the union box expanded by p/2 * width on each longitude side and
\* p/2 * height on each latitude side, it contains the union box, and a side
\* moves outwards exactly when the union box has a positive extent along that
\* axis, so the result differs from the union box unless that box is a point.
C13_PaddedBoxExpandsByHalfPad ==
    (Returned("_compute_clip_bounds") /\ GivenBoxes # {}) =>
        /\ px.value # None
        /\ px.args[2] = Zero => The(px.value) = UnionBox
        /\ FLt(Zero, px.args[2]) =>
              LET box == The(px.value)
              IN /\ Contains(box, UnionBox)
                 /\ ExpandedByHalfPad(box)
                 /\ FLt(box[1], UnionBox[1]) <=> FLt(UnionBox[1], UnionBox[3])
                 /\ FLt(UnionBox[3], box[3]) <=> FLt(UnionBox[1], UnionBox[3])
                 /\ FLt(box[2], UnionBox[2]) <=> FLt(UnionBox[2], UnionBox[4])
                 /\ FLt(UnionBox[4], box[4]) <=> FLt(UnionBox[2], UnionBox[4])
                 /\ (box = UnionBox) <=>
                       (UnionBox[1] = UnionBox[3] /\ UnionBox[2] = UnionBox[4])

\* two polygons padded by the default factor
C13_Witness ==
    /\ Returned("_compute_clip_bounds")
    /\ Cardinality(GivenBoxes) = 2
    /\ px.args[2] = Fin(3, 10)
    /\ px.value = Some(<<Fin(11, 20), Fin(7, 10), Fin(89, 20), Fin(33, 10)>>)

\* the pixels (row, column, from 1) of the exported array with a finite value
FinitePixels ==
    {rc \in (DOMAIN px.args[1]) \X (1..MaxCols + 1) :
        rc[2] \in DOMAIN px.args[1][rc[1]] /\ IsFinite(px.args[1][rc[1]][rc[2]])}

\* the place of a finite pixel among the finite pixels in row-major order
Rank(rc) ==
    1 + Cardinality({q \in FinitePixels :
                        q[1] < rc[1] \/ (q[1] = rc[1] /\ q[2] < rc[2])})

\* the centre of pixel (row, column), counted from 1, under the affine transform
Centre(t, rc) ==
    <<FAdd(FAdd(FMul(t[1], Fin(2 * rc[2] - 1, 2)), FMul(t[2], Fin(2 * rc[1] - 1, 2))), t[3]),
      FAdd(FAdd(FMul(t[4], Fin(2 * rc[2] - 1, 2)), FMul(t[5], Fin(2 * rc[1] - 1, 2))), t[6])>>

\* C14: export writes the header row and then exactly one data row for each
\* pixel with a finite value, in row-major order, and none for a NaN or an
\* infinite one; the data row of a pixel holds the coordinate of the pixel's
\* centre under the affine transform and the pixel's value.
C14_OneRowPerFinitePixel ==
    Returned("export") =>
        /\ Len(px.value) = 1 + Cardinality(FinitePixels)
        /\ px.value[1] = px.args[3]
        /\ \A rc \in FinitePixels :
              px.value[1 + Rank(rc)] =
                 <<Centre(px.args[2], rc)[1], Centre(px.args[2], rc)[2],
                   px.args[1][rc[1]][rc[2]]>>

\* an array with a finite value after a NaN and an infinity in the second row
C14_Witness ==
    /\ Returned("export")
    /\ Len(px.args[1]) = 2
    /\ px.args[1][1] = <<NaN, Fin(1, 2)>>
    /\ px.args[1][2] = <<PInf, Fin(1, 2)>>
    /\ Len(px.value) = 3
    /\ px.value[3] = <<Fin(115, 1), Fin(185, 1), Fin(1, 2)>>

\* the first MaxRequests answers of the server are all redirects with a Location
StillRedirecting == \A i \in 1..MaxRequests : px.args[3][i] = "redirect"

\* the archive file download would write
ArchivePaths == {px.args[2] \o <<n>> : n \in {<<"S2C", ".SAFE", ".zip">>, <<"id7", ".zip">>}}

\* C15: download makes at most 5 requests and always returns or raises; when
\* the product has an Id and the answers are still redirects after the fifth
\* request it raises the exceeded-redirects error and writes no archive file.
C15_BoundedRedirects ==
    /\ (px.state = "call" /\ px.name = "download") => ENABLED Download
    /\ Returned("download") =>
          /\ px.value.requests <= 5
          /\ (StillRedirecting /\ px.args[1].Id # None) =>
                 /\ px.value.error = Err("exceeded_redirects", {})
                 /\ px.value.requests = 5
                 /\ px.value.path = None
                 /\ px.value.created \cap ArchivePaths = {}

\* five redirects in a row, the sixth answer would have been the archive
C15_Witness ==
    /\ Returned("download")
    /\ StillRedirecting
    /\ px.args[3][MaxRequests + 1] = "ok"
    /\ px.args[1].Id # None
    /\ px.value.error = Err("exceeded_redirects", {})

\* the bands the registered indices among the requested ones are computed from
RequiredByRequest(c) ==
    UNION {Range(SpecBands(n)) : n \in RequestedNames(c.params.indices) \cap IndexNames}

FilesOf(paths) == {q \in paths : Len(Last(q)) > 1}

\* C18: nothing is rolled back.  No step of any pipeline ever removes a path
\* from the disk, and when a step fails every file written by a completed
\* earlier step of the run (the downloaded archive, the band rasters, the index
\* rasters) is still on disk and was not written again by the failing step.
\* (A pipeline that lists the same step twice lets it rewrite its own files.)
C18_NoRollback ==
    /\ \A i \in DOMAIN trace : trace[i].created \subseteq fs
    /\ \A i, j \in DOMAIN trace :
          (j < i /\ trace[i].error # NoError /\ trace[j].error = NoError
             /\ trace[j].step # trace[i].step) =>
              /\ FilesOf(trace[j].created) \subseteq fs
              /\ FilesOf(trace[j].created) \cap trace[i].created = {}

\* nothing ever leaves the disk
C18_DiskOnlyGrows == [][fs \subseteq fs']_vars

\* the archive was downloaded and its bands extracted, then ComputeIndices
\* failed after writing a first index raster
C18_Witness ==
    /\ entry = "WorkflowPipeline"
    /\ pc = "raised"
    /\ Len(trace) = 3
    /\ trace[3].error.kind = "raster_io"
    /\ \E q \in FilesOf(trace[1].created) : Last(q) = <<"S2C", ".SAFE", ".zip">>
    /\ Cardinality(FilesOf(trace[2].created)) > 1
    /\ FilesOf(trace[1].created) \cup FilesOf(trace[2].created) \subseteq fs

(***************************************************************************)
(* Claims about band extraction (specification SpecExtract)                *)
(***************************************************************************)
Extracted == ex.last # None /\ The(ex.last).error = NoError

\* the modification time of the band file extract read for an alias: that of
\* the file in a directory product, that of the unpacked copy for a .zip
SourceMtime(a) ==
    IF The(ex.last).src.kind = "zip" THEN The(ex.last).now ELSE The(ex.last).src.jp2[a]

\* each band with an up-to-date <alias>.tif is returned and not rewritten, and
\* each band with an older <alias>.tif is rewritten
CacheByMtime ==
    \A a \in ex.src.located :
        LET L == The(ex.last)
        IN /\ a \in DOMAIN L.extracted /\ L.extracted[a] = Append(Destination, Tif(a))
           /\ (L.before[a] # None /\ The(L.before[a]) >= SourceMtime(a)) =>
                 /\ a \notin L.rewritten
                 /\ ex.tif[a] = L.before[a]
           /\ (L.before[a] # None /\ The(L.before[a]) < SourceMtime(a)) =>
                 /\ a \in L.rewritten
                 /\ ex.tif[a] = Some(L.now)

\* C16: extract returns the path of, and does not rewrite, each band whose
\* <alias>.tif in the destination is up to date with the modification time of
\* the source band file; it rewrites a cached file older than its source; and
\* a second extract of an unchanged source into the same destination rewrites
\* no band file.
C16_CacheReusedWhenNewer ==
    Extracted =>
        /\ CacheByMtime
        /\ The(ex.last).again => The(ex.last).rewritten = {}

\* the same for directory products only
C16_DirectoryCacheReused ==
    Extracted =>
        /\ CacheByMtime
        /\ (The(ex.last).again /\ ex.src.kind = "dir") => The(ex.last).rewritten = {}

\* the geometry to_wkt works on: the document itself, that of a feature, or
\* that of the first feature of a collection
GivenGeometry ==
    LET g == px.args[1]
    IN IF g.type = "Feature" THEN g.geometry
       ELSE IF g.type = "FeatureCollection" THEN g.features[1].geometry
       ELSE g

\* the rings of the given geometry, polygon by polygon
GivenPolygons ==
    IF GivenGeometry.type = "Polygon" THEN <<GivenGeometry.coordinates>>
    ELSE GivenGeometry.coordinates

\* the number a piece of emitted text stands for
ValueOfText(text) ==
    CHOOSE v \in 0..9 : text = ToString(v) \/ text = ToString(v) \o ".0"

\* an emitted position stands for a stored one
StandsFor(emitted, position) ==
    /\ ValueOfText(emitted[1]) = position[1].v
    /\ ValueOfText(emitted[2]) = position[2].v

\* C20: to_wkt emits only closed rings.  For every ring of the Polygon or
\* MultiPolygon the emitted positions begin and end with the same coordinate;
\* a ring stored closed is emitted position by position as stored, a ring
\* stored open is emitted as stored followed by one copy of its first
\* position; the stored geometry is the same after the call.
C20_RingsAreClosed ==
    (Returned("to_wkt") /\ px.value.error = NoError) =>
        /\ px.value.geometry = px.args[1]
        /\ Len(px.value.wkt.polygons) = Len(GivenPolygons)
        /\ \A i \in DOMAIN GivenPolygons :
              /\ Len(px.value.wkt.polygons[i]) = Len(GivenPolygons[i])
              /\ \A k \in DOMAIN GivenPolygons[i] :
                    LET given == GivenPolygons[i][k]
                        out == px.value.wkt.polygons[i][k]
                        closed == /\ given[1][1].v = given[Len(given)][1].v
                                  /\ given[1][2].v = given[Len(given)][2].v
                    IN /\ given # <<>>
                       /\ ValueOfText(out[1][1]) = ValueOfText(out[Len(out)][1])
                       /\ ValueOfText(out[1][2]) = ValueOfText(out[Len(out)][2])
                       /\ Len(out) = IF closed THEN Len(given) ELSE Len(given) + 1
                       /\ \A j \in DOMAIN given : StandsFor(out[j], given[j])
                       /\ ~closed => StandsFor(out[Len(out)], given[1])

\* a polygon with an open outer ring of three positions and a hole
C20_Witness ==
    /\ Returned("to_wkt")
    /\ px.value.error = NoError
    /\ px.args[1].type = "Polygon"
    /\ Len(px.args[1].coordinates) = 2
    /\ Len(px.args[1].coordinates[1]) = 3
    /\ Len(px.value.wkt.polygons[1][1]) = 4
    /\ px.value.wkt.polygons[1][1][1] = <<"0", "0">>
    /\ px.value.wkt.polygons[1][1][4] = <<"0", "0">>

\* the pixels (row, column) of the masked array whose centre lies in one of
\* the rectangles of the overlays
Covered ==
    {rc \in (1..(MaxRows + 1)) \X (1..(MaxCols + 1)) :
        /\ rc[1] \in DOMAIN px.args[1]
        /\ rc[2] \in DOMAIN px.args[1][rc[1]]
        /\ \E d \in DOMAIN px.args[3] : \E g \in DOMAIN px.args[3][d].geometries :
              LET box == px.args[3][d].geometries[g]
                  x == FAdd(Fin(100, 1), FMul(Fin(10, 1), Fin(2 * rc[2] - 1, 2)))
                  y == FSub(Fin(200, 1), FMul(Fin(10, 1), Fin(2 * rc[1] - 1, 2)))
              IN /\ FLt(box[1], x) /\ FLt(x, box[3])
                 /\ FLt(box[2], y) /\ FLt(y, box[4])}

\* the overlays hold no geometry at all
NoGeometries == \A d \in DOMAIN px.args[3] : px.args[3][d].geometries = <<>>

\* C21: polygon masking is idempotent.  Masking the result of a masking with
\* the same overlays on the same grid returns the first result again: the
\* input value at every pixel inside a polygon and NaN at every other pixel;
\* with no geometries the input array is returned as it is.
C21_MaskIdempotent ==
    (px.name = "_mask_with_geojson" /\ px.state = "done") =>
        /\ NoGeometries => px.value[1] = px.args[1]
        /\ ~NoGeometries =>
              \A r \in DOMAIN px.args[1] : \A c \in DOMAIN px.args[1][r] :
                 px.value[1][r][c] =
                    IF <<r, c>> \in Covered THEN px.args[1][r][c] ELSE NaN
        /\ Len(px.value) = 2 => px.value[2] = px.value[1]

\* a second masking of an array that lost a finite value to the first one
C21_Witness ==
    /\ px.name = "_mask_with_geojson"
    /\ px.state = "done"
    /\ Len(px.value) = 2
    /\ px.args[1] = <<<<Fin(1, 2), Fin(1, 2)>>, <<Fin(1, 2), Fin(1, 2)>>>>
    /\ px.value[2] = <<<<Fin(1, 2), NaN>>, <<Fin(1, 2), NaN>>>>

\* the NDVI formula evaluated at one pixel: nir is args[1], red is args[2]
NdviEvaluated == px.state = "done" /\ px.name = "ndvi"

\* (nir - red) / (nir + red) in floating point
NdviRatio == FDiv(FSub(px.args[1], px.args[2]), FAdd(px.args[1], px.args[2]))

\* C22: at every pixel whose denominator nir + red is not zero, NDVI is
\* (nir - red) / (nir + red) of the nir and red values of that pixel; nir 0.5
\* and red 0.1 give (0.5 - 0.1) / (0.5 + 0.1).
C22_NdviIsRatio ==
    (NdviEvaluated /\ ~IsZero(FAdd(px.args[1], px.args[2]))) => px.value = NdviRatio

\* C22 as the code has it: where the sum is not zero NDVI is the ratio when
\* the ratio is a number, and 0 when it is NaN (a no-data or infinite sample);
\* nir 0.5 and red 0.1 give 2/3.
C22_NdviIsRatioOrZero ==
    /\ (NdviEvaluated /\ ~IsZero(FAdd(px.args[1], px.args[2]))) =>
          px.value = IF IsNaN(NdviRatio) THEN Zero ELSE NdviRatio
    /\ (NdviEvaluated /\ px.args[1] = Fin(1, 2) /\ px.args[2] = Fin(1, 10)) =>
          px.value = Fin(2, 3)

\* the uniform scene of nir 0.5 and red 0.1
C22_Witness ==
    /\ NdviEvaluated
    /\ px.args[1] = Fin(1, 2)
    /\ px.args[2] = Fin(1, 10)
    /\ px.value = Fin(2, 3)

\* the names of the operations render performed on the index path at
\* position i, in the order it performed them
OpsOnLayer(i) ==
    LET own == SelectSeq(px.value.ops, LAMBDA o : o.layer = i)
    IN [k \in DOMAIN own |-> own[k].op]

\* the positions render reached: all of them, or those up to the failing one
LayersReached ==
    {i \in DOMAIN px.args[1] : px.args[5] \in DOMAIN px.args[1] => i <= px.args[5]}

Clipping == px.args[2].clip
Upsampled == px.args[2].upsample.n > px.args[2].upsample.d

\* C23: for every index layer render performs load, then the sharpening if
\* it is enabled, then the polygon mask if clipping is enabled, then the
\* upsampling, then the smoothing, then the polygon mask again exactly when
\* clipping is enabled and the upsample factor is above 1, and the colour
\* conversion only after all of these.
C23_LayerOperationOrder ==
    Returned("render") =>
        \A i \in LayersReached :
            LET ops == OpsOnLayer(i)
                n == Len(ops)
                colour == CHOOSE k \in DOMAIN ops : ops[k] = "generate_rgba"
                before == SubSeq(ops, 1, colour - 1)
            IN /\ \E k \in DOMAIN ops : ops[k] = "generate_rgba"
               /\ before =
                     <<"load_raster">>
                     \o (IF px.args[2].sharpen THEN <<"apply_unsharp_mask">> ELSE <<>>)
                     \o (IF Clipping THEN <<"_mask_with_geojson">> ELSE <<>>)
                     \o <<"upsample_raster", "apply_smoothing">>
                     \o (IF Clipping /\ Upsampled THEN <<"_mask_with_geojson">> ELSE <<>>)
               /\ \A k \in (colour + 1)..n : ops[k] = "add_overlay"

\* a sharpened, clipped layer upsampled by 2: masked before the upsampling
\* and again after the smoothing
C23_Witness ==
    /\ Returned("render")
    /\ px.value.error = NoError
    /\ Len(px.args[1]) = 2
    /\ px.args[2].upsample = Fin(2, 1)
    /\ OpsOnLayer(2) = <<"load_raster", "apply_unsharp_mask", "_mask_with_geojson",
                         "upsample_raster", "apply_smoothing", "_mask_with_geojson",
                         "generate_rgba", "add_overlay">>

\* the catalog operations of one run of ResolveProduct, in order
CatalogOps(t) == [k \in DOMAIN t.calls |-> t.calls[k].op]

IsPrefix(s, full) == Len(s) <= Len(full) /\ \A k \in DOMAIN s : s[k] = full[k]

\* C24: without a local product path ResolveProduct uses the catalog in the
\* order open session, query latest, download: the query is issued only when
\* a session was obtained, the download only when the query returned a
\* product, and an empty query result raises an error with no download.  With
\* a local product path no catalog operation is invoked.
C24_CatalogOrder ==
    \A k \in DOMAIN trace :
        LET t == trace[k]
            ops == CatalogOps(t)
            has(op) == \E j \in DOMAIN ops : ops[j] = op
        IN t.step = "ResolveProduct" =>
             /\ t.before.params.safe_path # None => ops = <<>>
             /\ IsPrefix(ops, <<"open_session", "query_latest", "download">>)
             /\ has("query_latest") => t.env.session
             /\ has("download") => (t.env.answered /\ t.env.found)
             /\ (has("query_latest") /\ t.env.answered /\ ~t.env.found) =>
                   (t.error.kind = "no_product" /\ ~has("download"))

\* a run that authenticates, queries, downloads and sets the product
C24_Witness ==
    \E k \in DOMAIN trace :
        /\ trace[k].step = "ResolveProduct"
        /\ trace[k].error = NoError
        /\ CatalogOps(trace[k]) = <<"open_session", "query_latest", "download">>
        /\ trace[k].after.product_path # None

\* the document is a collection without features
EmptyCollection ==
    px.args[1].type = "FeatureCollection" /\ px.args[1].features = <<>>

\* the rings of the resolved Polygon or MultiPolygon, over all its polygons
GivenRings ==
    {<<i, k>> \in (1..2) \X (1..2) :
        i \in DOMAIN GivenPolygons /\ k \in DOMAIN GivenPolygons[i]}

\* C25: to_wkt resolves the document to one geometry (itself, that of a
\* Feature, that of the first feature of a FeatureCollection) and returns a
\* WKT only when the type of that geometry is Polygon or MultiPolygon; any
\* other type raises the unsupported-geometry error, a collection without
\* features raises an error, an empty ring raises an error, and in each of
\* these cases no WKT is returned.
C25_GeometryResolution ==
    Returned("to_wkt") =>
        /\ px.value.error # NoError => px.value.wkt = <<>>
        /\ EmptyCollection => px.value.error.kind = "empty_feature_collection"
        /\ ~EmptyCollection =>
              IF GivenGeometry.type \notin {"Polygon", "MultiPolygon"}
              THEN px.value.error = Err("unsupported_geometry", {GivenGeometry.type})
              ELSE /\ (\E ik \in GivenRings : GivenPolygons[ik[1]][ik[2]] = <<>>)
                         => px.value.error # NoError
                   /\ px.value.error = NoError =>
                         /\ px.value.wkt.tag = IF GivenGeometry.type = "Polygon"
                                               THEN "POLYGON" ELSE "MULTIPOLYGON"
                         /\ Len(px.value.wkt.polygons) = Len(GivenPolygons)
                         /\ \A ik \in GivenRings :
                               StandsFor(px.value.wkt.polygons[ik[1]][ik[2]][1],
                                         GivenPolygons[ik[1]][ik[2]][1])

\* a collection whose first feature is a point: unsupported, whatever follows
C25_Witness ==
    /\ Returned("to_wkt")
    /\ px.args[1].type = "FeatureCollection"
    /\ Len(px.args[1].features) = 2
    /\ px.args[1].features[2].geometry.type = "Polygon"
    /\ px.value.error = Err("unsupported_geometry", {"Point"})
    /\ px.value.wkt = <<>>

\* the requests download answers with a redirect that names a Location are
\* exactly the first i - 1, and the i-th answer is a redirect without one
FirstWithoutLocation(i) ==
    /\ px.args[3][i] = "redirect_noloc"
    /\ \A j \in 1..(i - 1) : px.args[3][j] = "redirect"

\* C26: a redirect response without a Location header ends the redirect loop
\* of download and is taken as the final response: no error is raised, its
\* body is written to the archive path, and that path is returned.
C26_RedirectWithoutLocationIsFinal ==
    (Returned("download") /\ px.args[1].Id # None) =>
        \A i \in 1..MaxRequests :
            FirstWithoutLocation(i) =>
                /\ px.value.error = NoError
                /\ px.value.requests = i
                /\ px.value.body = i
                /\ px.value.path # None
                /\ The(px.value.path) \in ArchivePaths
                /\ The(px.value.path) \in px.value.created

\* two redirects are followed and the third one names no Location
C26_Witness ==
    /\ Returned("download")
    /\ px.args[1].Id # None
    /\ FirstWithoutLocation(3)
    /\ px.value.error = NoError
    /\ px.value.body = 3

\* the numerator each ratio formula hands to _compute_index
Numerator(name, a) ==
    CASE name \in {"ndvi", "ndwi", "ndmi", "ndre", "ndre1", "ndre2", "ndre3", "ndre4"} ->
            FSub(a[1], a[2])
      [] name = "msi" -> a[2]
      [] name = "evi" -> FSub(a[1], a[2])
      [] name = "sipi" -> FSub(a[1], a[3])

\* a formula that goes through _compute_index was evaluated at a pixel
RatioEvaluated == px.state = "done" /\ px.name # "ci_rededge"

\* C27: _compute_index never returns NaN.  A pixel whose quotient is NaN,
\* because the denominator is 0 or because a sample that enters the numerator
\* or the denominator is NaN, gets 0 in every formula that uses the helper
\* (ndvi, ndwi, msi, evi, ndre, ndre1..4, ndmi, sipi).
C27_RatioNeverNaN ==
    RatioEvaluated =>
        /\ ~IsNaN(px.value)
        /\ (\/ IsZero(Denominator(px.name, px.args))
            \/ IsNaN(FDiv(Numerator(px.name, px.args), Denominator(px.name, px.args)))
            \/ \E k \in DOMAIN px.args : IsNaN(px.args[k]))
              => px.value = Zero

\* NDVI of a pixel without a nir sample
C27_Witness ==
    /\ px.state = "done"
    /\ px.name = "ndvi"
    /\ px.args = <<NaN, Fin(1, 2)>>
    /\ px.value = Zero

\* the operations of render that read a file
ReadingOps == {"load_geojson", "first_load_raster", "load_raster"}

\* C28: render writes the document only after every index layer has been
\* prepared and added.  With no index path it raises before any file is
\* read; when the preparation of a layer fails it raises with nothing
\* written; and a document that is written holds one layer for each input
\* path, in the order of the input.
C28_WrittenAfterAllLayers ==
    Returned("render") =>
        LET ops == px.value.ops
            paths == px.args[1]
        IN /\ paths = <<>> =>
                 /\ px.value.error = Err("no_index_paths", {})
                 /\ \A k \in DOMAIN ops : ops[k].op \notin ReadingOps
                 /\ ~px.value.written
           /\ px.args[5] \in DOMAIN paths =>
                 /\ px.value.error # NoError
                 /\ ~px.value.written
                 /\ \A k \in DOMAIN ops : ops[k].op \notin {"mkdir", "save"}
           /\ px.value.written =>
                 /\ px.value.error = NoError
                 /\ Len(px.value.layers) = Len(paths)
                 /\ \A i \in DOMAIN paths : px.value.layers[i].stem = paths[i]
                 /\ ops[Len(ops)].op = "save"
                 /\ \A i \in DOMAIN paths :
                       \E k \in DOMAIN ops :
                          /\ ops[k] = RenderOp("add_overlay", i)
                          /\ \A j \in DOMAIN ops : ops[j].op = "save" => k < j

\* the second of three layers has no finite sample: the first layer was
\* prepared, the files of both were read, and nothing was written
C28_Witness ==
    /\ Returned("render")
    /\ Len(px.args[1]) = 3
    /\ px.args[5] = 2
    /\ px.value.error = Err("no_valid_data", {})
    /\ ~px.value.written
    /\ \E k \in DOMAIN px.value.ops : px.value.ops[k] = RenderOp("add_overlay", 1)
    /\ \E k \in DOMAIN px.value.ops : px.value.ops[k] = RenderOp("load_raster", 2)

\* WorkflowPipeline.run has returned its result
WorkflowReturned == entry = "WorkflowPipeline" /\ pc = "returned"

\* C29: the context WorkflowPipeline.run returns is fully populated:
\* product_path and product_title are set, bands is not empty, indices holds
\* one entry for each distinct requested index (for each registered index
\* when none was named) and is not empty, and maps holds exactly the path of
\* compare_indices_all.html in the maps directory.
C29_ReturnedContextPopulated ==
    WorkflowReturned =>
        /\ ctx.product_path # None
        /\ ctx.product_title # None
        /\ DOMAIN ctx.bands # {}
        /\ DOMAIN ctx.indices # {}
        /\ DOMAIN ctx.indices = RequestedNames(ctx.params.indices)
        /\ ctx.maps = <<MAPAS_DIR \o <<<<"compare_indices_all", ".html">>>>>>

\* a run for ndwi, ndvi, ndwi returns with two index rasters and one map
C29_Witness ==
    /\ WorkflowReturned
    /\ ctx.params.indices = Some(<<"ndwi", "ndvi", "ndwi">>)
    /\ DOMAIN ctx.indices = {"ndvi", "ndwi"}
    /\ Len(ctx.maps) = 1

\* the place of each registered index name in alphabetical order
Alphabetical ==
    [ci_rededge |-> 1, evi |-> 2, msi |-> 3, ndmi |-> 4, ndre |-> 5, ndre1 |-> 6,
     ndre2 |-> 7, ndre3 |-> 8, ndre4 |-> 9, ndvi |-> 10, ndwi |-> 11, sipi |-> 12]

\* the number of names of S that come before n in alphabetical order
Preceding(S, n) == Cardinality({m \in S : Alphabetical[m] < Alphabetical[n]})

\* C30: RenderComposite hands the index rasters to the compositor sorted by
\* index name, whatever the order of the request or of the computation: the
\* raster of each computed index stands at the place its name has among the
\* computed names, so position 0 holds the alphabetically smallest one.
C30_IndexPathsSortedByName ==
    \A k \in DOMAIN trace :
        LET t == trace[k]
            computed == t.before.indices
        IN (t.step = "RenderComposite" /\ t.calls # <<>>) =>
              /\ Len(t.calls) = 1
              /\ t.calls[1].op = "render"
              /\ Len(t.calls[1].arg) = Cardinality(DOMAIN computed)
              /\ \A n \in DOMAIN computed :
                    t.calls[1].arg[1 + Preceding(DOMAIN computed, n)] = computed[n]

\* every registered index was computed, ndvi first: the compositor gets
\* ci_rededge at position 0 and ndvi at position 9
C30_Witness ==
    \E k \in DOMAIN trace :
        /\ trace[k].step = "RenderComposite"
        /\ trace[k].before.params.indices = None
        /\ trace[k].calls # <<>>
        /\ Len(trace[k].calls[1].arg) = 12
        /\ Last(trace[k].calls[1].arg[1]) = Tif("ci_rededge")
        /\ Last(trace[k].calls[1].arg[10]) = Tif("ndvi")

====
